---- MODULE Spec2Model ----
(***************************************************************************)
(* A model of astrbot_plugin_aiocensor: the moderation pipeline            *)
(* (CensorFlow), the periodic refresh of the local matchers from the       *)
(* moderation store, the store's tables and the new-member watchlist.      *)
(*                                                                         *)
(* Strings are finite sequences over a small alphabet.  The package        *)
(* `censor` (LocalCensor and the remote detectors) and the class DBManager *)
(* are not part of the sources at hand; the definitions that stand for     *)
(* them follow the design document and are marked so where they appear.    *)
(***************************************************************************)
EXTENDS Integers, Sequences, FiniteSets, TLC

(***************************************************************************)
(* Bounds of the model.                                                    *)
(***************************************************************************)
MaxTextLen == 3
MaxWordLen == 2
MaxPatterns == 2

\* The characters of the model's strings.
Alphabet == {"a", "b"}

SeqsUpTo(n) == UNION {[1..k -> Alphabet] : k \in 0..n}

\* Every message text / user id the model submits.
Texts == SeqsUpTo(MaxTextLen)

\* Every sensitive word / blacklist identifier the model stores (non-empty:
\* the administrative interface rejects an empty value).
Words == SeqsUpTo(MaxWordLen) \ {<<>>}

None == "None"

(***************************************************************************)
(* Plain string relations, used to state what a matcher should answer.     *)
(***************************************************************************)
IsSubstring(w, x) ==
    \E i \in 0..(Len(x) - Len(w)) : SubSeq(x, i + 1, i + Len(w)) = w

IsSuffix(s, t) ==
    /\ Len(s) <= Len(t)
    /\ SubSeq(t, Len(t) - Len(s) + 1, Len(t)) = s

(***************************************************************************)
(* LocalCensor (package censor, not in the sources): the multi-pattern     *)
(* automaton of the design document, section 4.2.  A node of the trie is   *)
(* the prefix that leads to it.                                            *)
(***************************************************************************)
TrieNodes(S) == {<<>>} \cup UNION {{SubSeq(w, 1, k) : k \in 0..Len(w)} : w \in S}

\* Failure link: the longest proper suffix of the node that is a trie node.
FailLink(S, node) ==
    CHOOSE p \in TrieNodes(S) :
        /\ Len(p) < Len(node)
        /\ IsSuffix(p, node)
        /\ \A q \in TrieNodes(S) :
               (Len(q) < Len(node) /\ IsSuffix(q, node)) => Len(q) <= Len(p)

RECURSIVE Goto(_, _, _)
Goto(S, node, c) ==
    IF Append(node, c) \in TrieNodes(S) THEN Append(node, c)
    ELSE IF node = <<>> THEN <<>>
    ELSE Goto(S, FailLink(S, node), c)

\* The patterns reported at a node: the node itself when it ends a pattern,
\* and those found along its failure links.
RECURSIVE Output(_, _)
Output(S, node) ==
    (IF node \in S THEN {node} ELSE {})
        \cup (IF node = <<>> THEN {} ELSE Output(S, FailLink(S, node)))

(***************************************************************************)
(* A detector binding of the flow is a record: its kind, the LocalCensor   *)
(* option use_logic, and the pattern set last loaded by build.             *)
(***************************************************************************)
NoCensor == [kind |-> None, use_logic |-> FALSE, patterns |-> {}]

RemoteKinds == {"AliyunCensor", "LLMCensor", "TencentCensor"}

\* LocalCensor(config): a fresh matcher, nothing loaded.
LocalCensor(cfg) ==
    [kind |-> "LocalCensor", use_logic |-> cfg.use_logic, patterns |-> {}]

RemoteCensor(kind) == [kind |-> kind, use_logic |-> FALSE, patterns |-> {}]

\* The two modes of the matcher: substring scanning for the sensitive-word
\* matcher (use_logic on), whole-string membership for the identifier matcher.
SubstringMode(censor) == censor.kind = "LocalCensor" /\ censor.use_logic
ExactMode(censor) == censor.kind = "LocalCensor" /\ ~censor.use_logic

\* configs["local"] of CensorFlow.__init__.
LocalConfigFlipped == [use_logic |-> FALSE]
LocalConfig == [use_logic |-> TRUE]

\* The option of the identifier matcher, CensorFlow.__init__.
UseridConfigFlipped == [use_logic |-> TRUE]
UseridConfig == [use_logic |-> FALSE]

Providers == {"", "Aliyun", "LLM", "Tencent", "Local", "Unknown"}

\* A _create_censor that falls back on the local matcher for a name it
\* does not know.
CreateCensorDefaulting(provider, ctorFails) ==
    IF provider = "" THEN NoCensor
    ELSE IF ctorFails /\ provider \in {"Aliyun", "LLM", "Tencent", "Local"}
         THEN NoCensor
    ELSE IF provider = "Aliyun" THEN RemoteCensor("AliyunCensor")
    ELSE IF provider = "LLM" THEN RemoteCensor("LLMCensor")
    ELSE IF provider = "Tencent" THEN RemoteCensor("TencentCensor")
    ELSE LocalCensor(LocalConfig)

\* CensorFlow._create_censor; ctorFails: the detector's constructor raises.
CreateCensor(provider, ctorFails) ==
    IF provider = "" THEN NoCensor
    ELSE IF ctorFails /\ provider \in {"Aliyun", "LLM", "Tencent", "Local"}
         THEN NoCensor
    ELSE IF provider = "Aliyun" THEN RemoteCensor("AliyunCensor")
    ELSE IF provider = "LLM" THEN RemoteCensor("LLMCensor")
    ELSE IF provider = "Tencent" THEN RemoteCensor("TencentCensor")
    ELSE IF provider = "Local" THEN LocalCensor(LocalConfig)
    ELSE NoCensor

VARIABLES
    config,                 \* AIOCensor.config, fixed while the plugin runs
    text_censor,            \* CensorFlow._text_censor
    image_censor,           \* CensorFlow._image_censor
    userid_censor,          \* CensorFlow._userid_censor
    blacklist,              \* table blacklist
    sensitive_words,        \* table sensitive_words
    audit_logs,             \* table audit_logs
    new_member_watchlist,   \* AIOCensor.new_member_watchlist
    now,                    \* int(time.time())
    upd,                    \* the run of _update_censors in flight
    det,                    \* the detect_text call in flight
    call,                   \* the store mutations in flight, per caller
    ev,                     \* the inbound event the host is dispatching
    refreshed,              \* the identifiers the last refresh that ended
                            \* without error loaded
    sched,                  \* the runs of the job update_censors the
                            \* scheduler holds as not yet finished
    obs                     \* what the step just taken observed or returned

vars == <<config, text_censor, image_censor, userid_censor, blacklist,
          sensitive_words, audit_logs, new_member_watchlist, now, upd, det,
          call, ev, refreshed, sched, obs>>

flowVars == <<text_censor, image_censor, userid_censor>>
storeVars == <<blacklist, sensitive_words, audit_logs>>

\* The pattern sets the model loads into a matcher.
PatternSets == {S \in SUBSET Words : Cardinality(S) <= MaxPatterns}

\* A build that takes a word it finds loaded already for one to unload.
BuildToggling(censor, patterns) ==
    [censor EXCEPT !.patterns = (@ \ patterns) \cup (patterns \ @)]

\* LocalCensor.build(patterns): a full replacement of the loaded set, made
\* visible in one step (design document, 4.2).
Build(censor, patterns) == [censor EXCEPT !.patterns = patterns]

\* Only the local matcher has build (the hasattr probe of _update_censors).
SupportsBuild(censor) == censor.kind = "LocalCensor"

\* The automaton a detect_text call in flight reads: the one it took when it
\* started, whatever build has swapped in since.
ReaderViewLive(snap, live) == live
ReaderView(snap, live) == snap

(***************************************************************************)
(* The configuration.  DefaultConfig has every switch off; a specification *)
(* sets the switches it is about.                                          *)
(***************************************************************************)
DefaultConfig ==
    [text_censor_provider |-> "Local",
     image_censor_provider |-> "",
     enable_image_censor |-> FALSE,
     enable_blacklist |-> FALSE,
     enable_audit_log |-> FALSE,
     enable_group_msg_censor |-> FALSE,
     enable_review_new_members |-> FALSE,
     enable_private_msg_censor |-> FALSE,
     enable_all_input_censor |-> FALSE,
     enable_input_censor |-> FALSE,
     enable_output_censor |-> FALSE,
     group_list |-> {},
     review_new_members_duration |-> 1]

\* CensorFlow.__init__: the three bindings, in the order of flowVars.
NewFlow(cfg, textFails, imageFails) ==
    <<CreateCensor(cfg.text_censor_provider, textFails),
      IF cfg.enable_image_censor /\ cfg.image_censor_provider # ""
      THEN CreateCensor(cfg.image_censor_provider, imageFails)
      ELSE NoCensor,
      LocalCensor(UseridConfig)>>

\* CensorFlow.__init__ as the plugin's first state sees it.
FlowInit(cfg, textFails, imageFails) ==
    LET flow == NewFlow(cfg, textFails, imageFails)
    IN /\ text_censor = flow[1]
       /\ image_censor = flow[2]
       /\ userid_censor = flow[3]

IdleDet ==
    [censor |-> "none", x |-> <<>>, i |-> 0, node |-> <<>>, acc |-> {},
     snap |-> {}]

IdleUpd == [pc |-> "idle"]

NoObs == [op |-> "none"]

Callers == {"main", "webui"}

IdleCall == [op |-> "idle"]

IdleEvent == [stage |-> "idle"]

\* AIOCensor.__init__ apart from the flow: empty watchlist, nothing in flight.
PluginInit ==
    /\ new_member_watchlist = [k \in {} |-> 0]
    /\ upd = IdleUpd
    /\ det = IdleDet
    /\ call = [c \in Callers |-> IdleCall]
    /\ ev = IdleEvent
    /\ sched = <<>>
    /\ obs = NoObs

CensorOf(c) == IF c = "text" THEN text_censor ELSE userid_censor

(***************************************************************************)
(* LocalCensor.detect_text, one step of the scan at a time.                *)
(***************************************************************************)
DetectStart(c, x) ==
    /\ det.censor = "none"
    /\ CensorOf(c).kind = "LocalCensor"
    /\ det' = [IdleDet EXCEPT !.censor = c, !.x = x,
                              !.snap = CensorOf(c).patterns]
    /\ obs' = NoObs
    /\ UNCHANGED <<config, sched, ev, refreshed, flowVars, storeVars, new_member_watchlist, now,
                   upd, call>>

DetectStep ==
    /\ det.censor # "none"
    /\ LET cen == CensorOf(det.censor)
           pats == ReaderView(det.snap, cen.patterns)
       IN IF SubstringMode(cen)
          THEN /\ det.i < Len(det.x)
               /\ LET next == Goto(pats, det.node, det.x[det.i + 1])
                  IN det' = [det EXCEPT !.i = det.i + 1, !.node = next,
                                        !.acc = det.acc \cup Output(pats, next)]
          ELSE /\ det.i = 0
               /\ det' = [det EXCEPT !.i = 1,
                                     !.acc = IF det.x \in pats THEN {det.x}
                                             ELSE {}]
    /\ obs' = NoObs
    /\ UNCHANGED <<config, sched, ev, refreshed, flowVars, storeVars, new_member_watchlist, now,
                   upd, call>>

DetectEnd ==
    /\ det.censor # "none"
    /\ IF SubstringMode(CensorOf(det.censor))
       THEN det.i = Len(det.x)
       ELSE det.i = 1
    /\ obs' = [op |-> "detect_text", censor |-> det.censor, x |-> det.x,
               risk |-> IF det.acc # {} THEN "Block" ELSE "Pass",
               reason |-> det.acc, snap |-> det.snap,
               live |-> CensorOf(det.censor).patterns]
    /\ det' = IdleDet
    /\ UNCHANGED <<config, sched, ev, refreshed, flowVars, storeVars, new_member_watchlist, now,
                   upd, call>>

(***************************************************************************)
(* The moderation store.  A table is the set of its rows.  The context     *)
(* manager _locked_db of DBManager is not in the sources; following the    *)
(* design document (4.4) it makes the statement of a mutation and its      *)
(* commit one step, and a failed mutation leaves the table as it was.      *)
(***************************************************************************)
MaxTime == 2

Reasons == {"r1", "r2"}

RowWith(tbl, col, v) == {r \in tbl : r[col] = v}

\* An add that hands back the id it drew, a value no row holds.
ReturnedIdDrawn(tbl, col, v) ==
    CHOOSE i \in 1..(Cardinality(tbl) + 1) : \A r \in tbl : r.id # i

\* The id a statement with RETURNING id yields for the row of a unique value.
ReturnedId(tbl, col, v) == (CHOOSE r \in tbl : r[col] = v).id

\* INSERT INTO blacklist ... with no conflict clause: a second row.
AddBlacklistEntryDuplicating(tbl, entry_id, identifier, reason, current_time) ==
    tbl \cup {[id |-> entry_id, identifier |-> identifier, reason |-> reason,
               updated_at |-> current_time]}

\* INSERT OR IGNORE: the existing row is kept as it is.
AddBlacklistEntryIgnoring(tbl, entry_id, identifier, reason, current_time) ==
    IF RowWith(tbl, "identifier", identifier) # {} THEN tbl
    ELSE tbl \cup {[id |-> entry_id, identifier |-> identifier,
                    reason |-> reason, updated_at |-> current_time]}

\* BlacklistMixin.add_blacklist_entry, the statement: INSERT ... ON
\* CONFLICT(identifier) DO UPDATE SET reason = ?, updated_at = ?.
AddBlacklistEntry(tbl, entry_id, identifier, reason, current_time) ==
    IF RowWith(tbl, "identifier", identifier) # {}
    THEN {IF r.identifier = identifier
          THEN [r EXCEPT !.reason = reason, !.updated_at = current_time]
          ELSE r : r \in tbl}
    ELSE tbl \cup {[id |-> entry_id, identifier |-> identifier,
                    reason |-> reason, updated_at |-> current_time]}

\* SensitiveWordMixin.add_sensitive_word, the statement: INSERT ... ON
\* CONFLICT(word) DO UPDATE SET updated_at = ?.
AddSensitiveWord(tbl, word_id, word, current_time) ==
    IF RowWith(tbl, "word", word) # {}
    THEN {IF r.word = word THEN [r EXCEPT !.updated_at = current_time]
          ELSE r : r \in tbl}
    ELSE tbl \cup {[id |-> word_id, word |-> word, updated_at |-> current_time]}

\* A delete that takes the rows of smaller ids with it.
DeleteThrough(tbl, id) == {r \in tbl : r.id > id}

\* DELETE FROM <table> WHERE id = ?.
DeleteById(tbl, id) == {r \in tbl : r.id # id}

\* Ids no row of the table holds (ids are positive numbers in the model;
\* one of the first n + 1 is unused in a table of n rows).
FreshIds(tbl) == {i \in 1..(Cardinality(tbl) + 1) : \A r \in tbl : r.id # i}

\* uuid.uuid4() for a row of the blacklist or the sensitive words: a value
\* no row holds.  Nothing orders or compares these ids, so the model takes
\* the least unused one, and takes it when the statement runs (the value
\* drawn does not depend on when it is drawn).
NewId(tbl) == CHOOSE i \in FreshIds(tbl) : \A j \in FreshIds(tbl) : i <= j

\* Kept for the run of _update_censors in flight: whether the store changed
\* since it started, and the words absent from the store ever since.
StoreChanged(u, added) ==
    IF u.pc = "idle" THEN u
    ELSE [u EXCEPT !.stale = TRUE, !.gone = @ \ added]

\* time.time() moves on.
Tick ==
    /\ now < MaxTime
    /\ now' = now + 1
    /\ obs' = NoObs
    /\ UNCHANGED <<config, sched, ev, refreshed, flowVars, storeVars, new_member_watchlist, upd,
                   det, call>>

\* add_blacklist_entry up to the lock: the new id and the time are taken.
BeginAddBlacklistEntry(c, identifier, reason) ==
    /\ call[c].op = "idle"
    /\ call' = [call EXCEPT ![c] =
                   [op |-> "add_blacklist_entry", identifier |-> identifier,
                    reason |-> reason, current_time |-> now]]
    /\ obs' = NoObs
    /\ UNCHANGED <<config, sched, ev, refreshed, flowVars, storeVars, new_member_watchlist, now,
                   upd, det>>

\* add_blacklist_entry under the lock: the statement runs and commits, or
\* fails with sqlite3.Error, which is raised as DBError.
ExecAddBlacklistEntry(c) ==
    /\ call[c].op = "add_blacklist_entry"
    /\ LET a == call[c]
           old == RowWith(blacklist, "identifier", a.identifier)
       IN \E fails \in BOOLEAN :
            IF fails
            THEN /\ obs' = [op |-> "add_blacklist_entry", ok |-> FALSE,
                            identifier |-> a.identifier,
                            table |-> blacklist]
                 /\ UNCHANGED <<blacklist, upd>>
            ELSE /\ blacklist' = AddBlacklistEntry(blacklist, NewId(blacklist),
                                     a.identifier, a.reason, a.current_time)
                 /\ obs' = [op |-> "add_blacklist_entry", ok |-> TRUE,
                            identifier |-> a.identifier, reason |-> a.reason,
                            current_time |-> a.current_time,
                            result |-> ReturnedId(blacklist', "identifier",
                                                  a.identifier),
                            before |-> old]
                 /\ upd' = StoreChanged(upd, {})
    /\ call' = [call EXCEPT ![c] = IdleCall]
    /\ UNCHANGED <<config, sched, ev, refreshed, flowVars, sensitive_words, audit_logs,
                   new_member_watchlist, now, det>>

BeginAddSensitiveWord(c, word) ==
    /\ call[c].op = "idle"
    /\ call' = [call EXCEPT ![c] =
                   [op |-> "add_sensitive_word", word |-> word,
                    current_time |-> now]]
    /\ obs' = NoObs
    /\ UNCHANGED <<config, sched, ev, refreshed, flowVars, storeVars, new_member_watchlist, now,
                   upd, det>>

ExecAddSensitiveWord(c) ==
    /\ call[c].op = "add_sensitive_word"
    /\ LET a == call[c]
           old == RowWith(sensitive_words, "word", a.word)
       IN \E fails \in BOOLEAN :
            IF fails
            THEN /\ obs' = [op |-> "add_sensitive_word", ok |-> FALSE,
                            word |-> a.word]
                 /\ UNCHANGED <<sensitive_words, upd>>
            ELSE /\ sensitive_words' = AddSensitiveWord(sensitive_words,
                                           NewId(sensitive_words), a.word,
                                           a.current_time)
                 /\ obs' = [op |-> "add_sensitive_word", ok |-> TRUE,
                            word |-> a.word, current_time |-> a.current_time,
                            result |-> ReturnedId(sensitive_words', "word",
                                                  a.word),
                            before |-> old]
                 /\ upd' = StoreChanged(upd, {a.word})
    /\ call' = [call EXCEPT ![c] = IdleCall]
    /\ UNCHANGED <<config, sched, ev, refreshed, flowVars, blacklist, audit_logs,
                   new_member_watchlist, now, det>>

\* BlacklistMixin.delete_blacklist_entry.
DeleteBlacklistEntry(entry_id) ==
    /\ \E fails \in BOOLEAN :
          IF fails
          THEN /\ obs' = [op |-> "delete_blacklist_entry", ok |-> FALSE]
               /\ UNCHANGED <<blacklist, upd>>
          ELSE /\ blacklist' = DeleteById(blacklist, entry_id)
               /\ obs' = [op |-> "delete_blacklist_entry", ok |-> TRUE,
                          result |-> RowWith(blacklist, "id", entry_id) # {},
                          before |-> RowWith(blacklist, "id", entry_id)]
               /\ upd' = StoreChanged(upd, {})
    /\ UNCHANGED <<config, sched, ev, refreshed, flowVars, sensitive_words, audit_logs,
                   new_member_watchlist, now, det, call>>

\* A delete that also takes the word out of the text matcher.
DeleteSensitiveWordEvicting(word_id) ==
    /\ \E fails \in BOOLEAN :
          IF fails
          THEN /\ obs' = [op |-> "delete_sensitive_word", ok |-> FALSE]
               /\ UNCHANGED <<sensitive_words, upd, text_censor>>
          ELSE /\ sensitive_words' = DeleteById(sensitive_words, word_id)
               /\ text_censor' =
                     [text_censor EXCEPT !.patterns =
                         @ \ {r.word : r \in RowWith(sensitive_words, "id",
                                                     word_id)}]
               /\ obs' = [op |-> "delete_sensitive_word", ok |-> TRUE,
                          result |-> RowWith(sensitive_words, "id", word_id) # {},
                          before |-> RowWith(sensitive_words, "id", word_id)]
               /\ upd' = StoreChanged(upd, {})
    /\ UNCHANGED <<config, sched, ev, refreshed, image_censor, userid_censor,
                   blacklist, audit_logs, new_member_watchlist, now, det,
                   call>>

\* SensitiveWordMixin.delete_sensitive_word.
DeleteSensitiveWord(word_id) ==
    /\ \E fails \in BOOLEAN :
          IF fails
          THEN /\ obs' = [op |-> "delete_sensitive_word", ok |-> FALSE]
               /\ UNCHANGED <<sensitive_words, upd>>
          ELSE /\ sensitive_words' = DeleteById(sensitive_words, word_id)
               /\ obs' = [op |-> "delete_sensitive_word", ok |-> TRUE,
                          result |-> RowWith(sensitive_words, "id", word_id) # {},
                          before |-> RowWith(sensitive_words, "id", word_id)]
               /\ upd' = StoreChanged(upd, {})
    /\ UNCHANGED <<config, sched, ev, refreshed, flowVars, blacklist, audit_logs,
                   new_member_watchlist, now, det, call>>

(***************************************************************************)
(* Listing the blacklist and the sensitive words.                          *)
(***************************************************************************)
DefaultLimit == 100

\* The subsets of S that take k of its elements.
RECURSIVE Taking(_, _)
Taking(S, k) ==
    IF k = 0 THEN {{}}
    ELSE UNION {{T \cup {x} : x \in S \ T} : T \in Taking(S, k - 1)}

\* The subsets of S that leave out d of its elements.
RECURSIVE Leaving(_, _)
Leaving(S, d) ==
    IF d = 0 THEN {S}
    ELSE UNION {{T \ {x} : x \in T} : T \in Leaving(S, d - 1)}

\* The subsets of S of k elements, S itself when it has no more.
KSubsets(S, k) ==
    IF Cardinality(S) <= k THEN {S}
    ELSE IF 2 * k > Cardinality(S) THEN Leaving(S, Cardinality(S) - k)
    ELSE Taking(S, k)

\* ORDER BY updated_at DESC LIMIT k: the rows that come first.  Rows of one
\* updated_at come in an order the engine chooses, so there are several
\* answers when the cut falls among them.
FirstByUpdatedAt(tbl, k) ==
    LET sure == {r \in tbl :
                    Cardinality({q \in tbl : q.updated_at >= r.updated_at}) <= k}
        edge == {r \in tbl \ sure :
                    Cardinality({q \in tbl : q.updated_at > r.updated_at}) < k}
    IN {sure \cup B : B \in KSubsets(edge, k - Cardinality(sure))}

\* BlacklistMixin.get_blacklist_entries: the possible answers, each the set
\* of the rows of the page (no caller in the model reads their order).
GetBlacklistEntries(tbl, limit, offset) ==
    UNION {FirstByUpdatedAt(tbl \ skipped, limit) :
              skipped \in FirstByUpdatedAt(tbl, offset)}

\* Strings compare character by character, "a" before "b".
CharRank(ch) == IF ch = "a" THEN 1 ELSE 2

RECURSIVE StrLess(_, _)
StrLess(s, t) ==
    IF t = <<>> THEN FALSE
    ELSE IF s = <<>> THEN TRUE
    ELSE IF s[1] # t[1] THEN CharRank(s[1]) < CharRank(t[1])
    ELSE StrLess(Tail(s), Tail(t))

\* Python's truth value of an optional search term (a string of the model
\* is a sequence of characters).
TruthyTerm(opt) == opt # <<>> /\ opt[1] # <<>>

\* SensitiveWordMixin.get_sensitive_words: WHERE word LIKE %term% when a
\* search term is given, ORDER BY word LIMIT ? OFFSET ?; the rows of the page.
GetSensitiveWords(tbl, search_term, limit, offset) ==
    LET found == IF TruthyTerm(search_term)
                 THEN {r \in tbl : IsSubstring(search_term[1], r.word)}
                 ELSE tbl
        rank(r) == Cardinality({q \in found : StrLess(q.word, r.word)})
    IN {r \in found : offset <= rank(r) /\ rank(r) < offset + limit}

(***************************************************************************)
(* AIOCensor._update_censors, one store read or one build at a time.       *)
(***************************************************************************)
\* The observation a run of _update_censors ends with.
UpdateDone(ok, at) ==
    [op |-> "_update_censors", ok |-> ok, at |-> at, stale |-> upd.stale,
     gone |-> upd.gone, prev_userid |-> upd.prev_userid,
     prev_text |-> upd.prev_text]

\* A refresh that only adds what it read to what the matcher holds.
TextBuildArgMerging(rows, loaded) == loaded \cup {entry.word : entry \in rows}

\* The argument of text_censor.build: {entry.word for entry in sensitive_words}.
TextBuildArg(rows, loaded) == {entry.word : entry \in rows}

\* black_list = self.db_mgr.get_blacklist_entries()
UpdateGetBlacklistBody ==
    /\ upd.pc = "idle"
    /\ LET started ==
               [pc |-> "build_userid", ids |-> {}, words |-> {},
                stale |-> FALSE,
                gone |-> Words \ {r.word : r \in sensitive_words},
                prev_userid |-> userid_censor.patterns,
                prev_text |-> text_censor.patterns]
       IN \E fails \in BOOLEAN :
            IF fails
            THEN /\ upd' = IdleUpd
                 /\ obs' = [op |-> "_update_censors", ok |-> FALSE,
                            at |-> "get_blacklist_entries", stale |-> FALSE,
                            gone |-> started.gone,
                            prev_userid |-> started.prev_userid,
                            prev_text |-> started.prev_text]
            ELSE /\ \E black_list \in
                          GetBlacklistEntries(blacklist, DefaultLimit, 0) :
                       upd' = [started EXCEPT
                                  !.ids = {entry.identifier :
                                              entry \in black_list}]
                 /\ obs' = NoObs
    /\ UNCHANGED <<config, ev, refreshed, flowVars, storeVars, new_member_watchlist, now,
                   det, call>>

\* _update_censors called with no scheduler in view: the call of get_blacklist_entries.
UpdateGetBlacklist ==
    /\ UpdateGetBlacklistBody
    /\ UNCHANGED sched

\* await self.censor_flow.userid_censor.build(...), then the hasattr probe.
UpdateBuildUseridBody ==
    /\ upd.pc = "build_userid"
    /\ \E fails \in BOOLEAN :
          IF fails
          THEN /\ upd' = IdleUpd
               /\ obs' = UpdateDone(FALSE, "userid_censor.build")
               /\ UNCHANGED userid_censor
          ELSE /\ userid_censor' = Build(userid_censor, upd.ids)
               /\ IF SupportsBuild(text_censor)
                  THEN /\ upd' = [upd EXCEPT !.pc = "get_sensitive_words"]
                       /\ obs' = NoObs
                  ELSE /\ upd' = IdleUpd
                       /\ obs' = UpdateDone(TRUE, "end")
    /\ refreshed' = IF obs'.op = "_update_censors" /\ obs'.ok
                    THEN userid_censor'.patterns ELSE refreshed
    /\ UNCHANGED <<config, ev, text_censor, image_censor, storeVars,
                   new_member_watchlist, now, det, call>>

\* _update_censors called with no scheduler in view: the build of the identifier matcher.
UpdateBuildUserid ==
    /\ UpdateBuildUseridBody
    /\ UNCHANGED sched

\* sensitive_words = self.db_mgr.get_sensitive_words()
UpdateGetSensitiveWordsBody ==
    /\ upd.pc = "get_sensitive_words"
    /\ \E fails \in BOOLEAN :
          IF fails
          THEN /\ upd' = IdleUpd
               /\ obs' = UpdateDone(FALSE, "get_sensitive_words")
          ELSE /\ upd' = [upd EXCEPT
                             !.pc = "build_text",
                             !.words = TextBuildArg(
                                 GetSensitiveWords(sensitive_words, <<>>,
                                                   DefaultLimit, 0),
                                 text_censor.patterns)]
               /\ obs' = NoObs
    /\ UNCHANGED <<config, ev, refreshed, flowVars, storeVars, new_member_watchlist, now,
                   det, call>>

\* _update_censors called with no scheduler in view: the call of get_sensitive_words.
UpdateGetSensitiveWords ==
    /\ UpdateGetSensitiveWordsBody
    /\ UNCHANGED sched

\* await self.censor_flow.text_censor.build(...)
UpdateBuildTextBody ==
    /\ upd.pc = "build_text"
    /\ \E fails \in BOOLEAN :
          IF fails
          THEN /\ obs' = UpdateDone(FALSE, "text_censor.build")
               /\ UNCHANGED text_censor
          ELSE /\ text_censor' = Build(text_censor, upd.words)
               /\ obs' = UpdateDone(TRUE, "end")
    /\ upd' = IdleUpd
    /\ refreshed' = IF obs'.ok THEN userid_censor.patterns ELSE refreshed
    /\ UNCHANGED <<config, ev, image_censor, userid_censor, storeVars,
                   new_member_watchlist, now, det, call>>

\* _update_censors called with no scheduler in view: the build of the text matcher.
UpdateBuildText ==
    /\ UpdateBuildTextBody
    /\ UNCHANGED sched

\* The ids a delete is called with: those of the rows, and one of no row.
DeletableIds(tbl) == {r.id : r \in tbl} \cup {NewId(tbl)}

\* AIOCensor.__init__ / initialize with the tables of a new database file.
InitPlugin(cfg) ==
    /\ config = cfg
    /\ FlowInit(cfg, FALSE, FALSE)
    /\ blacklist = {}
    /\ sensitive_words = {}
    /\ audit_logs = {}
    /\ now = 1
    /\ refreshed = userid_censor.patterns
    /\ PluginInit

(***************************************************************************)
(* SpecStore: the blacklist and the sensitive-word table under adds from   *)
(* two callers and deletes, while time passes.                             *)
(***************************************************************************)
StoreUsers == {<<"a">>, <<"a", "b">>}
StoreWords == {<<"b">>}

NextStore ==
    \/ Tick
    \/ \E c \in Callers, u \in StoreUsers, r \in Reasons :
          BeginAddBlacklistEntry(c, u, r)
    \/ \E c \in Callers : ExecAddBlacklistEntry(c)
    \/ \E c \in Callers, w \in StoreWords : BeginAddSensitiveWord(c, w)
    \/ \E c \in Callers : ExecAddSensitiveWord(c)
    \/ \E i \in DeletableIds(blacklist) : DeleteBlacklistEntry(i)
    \/ \E i \in DeletableIds(sensitive_words) : DeleteSensitiveWord(i)

SpecStore == InitPlugin(DefaultConfig) /\ [][NextStore]_vars

\* C5: a completed add_blacklist_entry(u, r) leaves exactly one row for u,
\* whose reason is r; when u was already stored (a second add of the same
\* identifier) that row is the existing one, updated, and no row is added.
C5_UpsertBlacklist ==
    (obs.op = "add_blacklist_entry" /\ obs.ok) =>
        LET rows == RowWith(blacklist, "identifier", obs.identifier)
        IN /\ Cardinality(rows) = 1
           /\ \A r \in rows : r.reason = obs.reason
           /\ obs.before # {} =>
                 /\ \A r \in rows : \A b \in obs.before : r.id = b.id
                 /\ Cardinality(blacklist) =
                        Cardinality((blacklist \ rows) \cup obs.before)

\* An identifier stored with one reason was added again with another.
C5_Witness ==
    /\ obs.op = "add_blacklist_entry" /\ obs.ok
    /\ \E b \in obs.before : b.reason = "r1" /\ obs.reason = "r2"
    /\ Cardinality(blacklist) = 2

\* C6: in every state of the store no two blacklist rows share an
\* identifier and no two sensitive-word rows share a word, and after an
\* add the row of the value carries the fields of that add, the last
\* writer: its reason and its time.
C6_UniqueLastWriter ==
    /\ \A r1, r2 \in blacklist : r1.identifier = r2.identifier => r1 = r2
    /\ \A r1, r2 \in sensitive_words : r1.word = r2.word => r1 = r2
    /\ (obs.op = "add_blacklist_entry" /\ obs.ok) =>
          \A r \in RowWith(blacklist, "identifier", obs.identifier) :
              r.reason = obs.reason /\ r.updated_at = obs.current_time
    /\ (obs.op = "add_sensitive_word" /\ obs.ok) =>
          \A r \in RowWith(sensitive_words, "word", obs.word) :
              r.updated_at = obs.current_time

\* Two adds of one identifier were in flight together and the one that took
\* its time first wrote last: the row carries the earlier time.
C6_Witness ==
    /\ obs.op = "add_blacklist_entry" /\ obs.ok
    /\ \E b \in obs.before :
          b.updated_at > obs.current_time /\ b.reason # obs.reason
    /\ \E r \in sensitive_words : r.updated_at < now

\* C20: an add of a value that is already stored returns the id of the
\* row that holds it, not a new id; the id it returns is in every case the
\* id of the one row of that value, so adds of one value with no delete in
\* between all return the same id.
C20_AddReturnsExistingId ==
    /\ (obs.op = "add_blacklist_entry" /\ obs.ok) =>
          /\ \A r \in RowWith(blacklist, "identifier", obs.identifier) :
                obs.result = r.id
          /\ \A b \in obs.before : obs.result = b.id
    /\ (obs.op = "add_sensitive_word" /\ obs.ok) =>
          /\ \A r \in RowWith(sensitive_words, "word", obs.word) :
                obs.result = r.id
          /\ \A b \in obs.before : obs.result = b.id

\* A word stored at an earlier second was added again and the add returned
\* the id of its row, while blacklist rows took other ids.
C20_Witness ==
    /\ obs.op = "add_sensitive_word" /\ obs.ok
    /\ \E b \in obs.before :
          b.id = obs.result /\ b.updated_at < obs.current_time
    /\ Cardinality(blacklist) = 2

(***************************************************************************)
(* The audit log.  An optional argument is <<>> (None) or <<v>>.           *)
(***************************************************************************)
MaxLogs == 3

\* The values uuid.uuid4() draws from for audit-log ids; listing orders by
\* them, so a new id is any value not in the table.
AuditIds == 1..MaxLogs

RiskLevels == {"Pass", "Review", "Block"}

Sources == {"g1", "p1"}

\* Python's truth value of an optional int / str / RiskLevel argument.
TruthyInt(opt) == opt # <<>> /\ opt[1] # 0
TruthyStr(opt) == opt # <<>> /\ opt[1] # ""
TruthyRisk(opt) == opt # <<>>

\* The WHERE clause get_audit_logs and get_audit_logs_count build.
AuditWhere(tbl, start_time, end_time, source, risk_level) ==
    {r \in tbl :
        /\ TruthyInt(start_time) => r.message_timestamp >= start_time[1]
        /\ TruthyInt(end_time) => r.message_timestamp <= end_time[1]
        /\ TruthyStr(source) => r.source = source[1]
        /\ TruthyRisk(risk_level) => r.risk_level = risk_level[1]}

\* ORDER BY message_timestamp DESC, id DESC.
AuditBefore(r, q) ==
    \/ r.message_timestamp > q.message_timestamp
    \/ r.message_timestamp = q.message_timestamp /\ r.id > q.id

\* ORDER BY message_timestamp DESC alone, rows of one timestamp in the order
\* the engine happens to produce (here: by id, upwards).
AuditBeforeByTime(r, q) ==
    \/ r.message_timestamp > q.message_timestamp
    \/ r.message_timestamp = q.message_timestamp /\ r.id < q.id

RECURSIVE OrderBy(_, _)
OrderBy(rows, upward) ==
    IF rows = {} THEN <<>>
    ELSE LET first == CHOOSE r \in rows : \A q \in rows \ {r} :
                         IF upward THEN AuditBeforeByTime(r, q)
                         ELSE AuditBefore(r, q)
         IN <<first>> \o OrderBy(rows \ {first}, upward)

\* LIMIT ? OFFSET ?.
Page(rows, limit, offset) ==
    IF offset >= Len(rows) THEN <<>>
    ELSE SubSeq(rows, offset + 1,
                IF offset + limit < Len(rows) THEN offset + limit
                ELSE Len(rows))

\* A listing without the id in its ORDER BY: the order of rows that share a
\* timestamp is the engine's, and differs between two queries.
GetAuditLogsByTime(tbl, start_time, end_time, source, risk_level, limit, offset) ==
    Page(OrderBy(AuditWhere(tbl, start_time, end_time, source, risk_level),
                 offset # 0),
         limit, offset)

\* AuditLogMixin.get_audit_logs.
GetAuditLogs(tbl, start_time, end_time, source, risk_level, limit, offset) ==
    Page(OrderBy(AuditWhere(tbl, start_time, end_time, source, risk_level),
                 FALSE),
         limit, offset)

\* AuditLogMixin.get_audit_logs_count.
GetAuditLogsCount(tbl, start_time, end_time, source, risk_level) ==
    Cardinality(AuditWhere(tbl, start_time, end_time, source, risk_level))

\* The row add_audit_log inserts for a CensorResult.
AuditRow(log_id, result) ==
    [id |-> log_id, content |-> result.content, source |-> result.source,
     message_timestamp |-> result.timestamp, risk_level |-> result.risk,
     reason |-> result.reason, user_id_str |-> result.user_id_str]

\* AuditLogMixin.add_audit_log: the table with the new row.
AddAuditLog(tbl, log_id, result) == tbl \cup {AuditRow(log_id, result)}

FreshAuditIds(tbl) == {i \in AuditIds : \A r \in tbl : r.id # i}

\* A call of add_audit_log(result): inserts and commits, or fails and rolls
\* back.
CallAddAuditLog(result) ==
    /\ \E log_id \in FreshAuditIds(audit_logs), fails \in BOOLEAN :
          IF fails
          THEN /\ obs' = [op |-> "add_audit_log", ok |-> FALSE]
               /\ UNCHANGED audit_logs
          ELSE /\ audit_logs' = AddAuditLog(audit_logs, log_id, result)
               /\ obs' = [op |-> "add_audit_log", ok |-> TRUE,
                          result |-> log_id]
    /\ UNCHANGED <<config, sched, ev, refreshed, flowVars, blacklist, sensitive_words,
                   new_member_watchlist, now, upd, det, call>>

\* AuditLogMixin.delete_audit_log.
DeleteAuditLog(log_id) ==
    /\ \E fails \in BOOLEAN :
          IF fails
          THEN /\ obs' = [op |-> "delete_audit_log", ok |-> FALSE]
               /\ UNCHANGED audit_logs
          ELSE /\ audit_logs' = DeleteById(audit_logs, log_id)
               /\ obs' = [op |-> "delete_audit_log", ok |-> TRUE,
                          result |-> RowWith(audit_logs, "id", log_id) # {}]
    /\ UNCHANGED <<config, sched, ev, refreshed, flowVars, blacklist, sensitive_words,
                   new_member_watchlist, now, upd, det, call>>

\* A client that lists the log page by page with one limit: offset 0, then
\* the offset raised by the limit after each full page.  obs.seen is what
\* the pages since offset 0 returned, in the order returned.
ListAuditLogs(limit, offset) ==
    /\ \/ offset = 0
       \/ /\ obs.op = "get_audit_logs"
          /\ obs.limit = limit
          /\ obs.offset + limit = offset
          /\ Len(obs.rows) = limit
    /\ LET rows == GetAuditLogs(audit_logs, <<>>, <<>>, <<>>, <<>>, limit,
                                offset)
       IN obs' = [op |-> "get_audit_logs", limit |-> limit,
                  offset |-> offset, rows |-> rows,
                  seen |-> IF offset = 0 THEN rows ELSE obs.seen \o rows]
    /\ UNCHANGED <<config, sched, ev, refreshed, flowVars, storeVars, new_member_watchlist, now,
                   upd, det, call>>

(***************************************************************************)
(* SpecAudit: the audit log under inserts, deletes and paged listing.      *)
(***************************************************************************)
AuditResults ==
    [content : {<<"a">>}, source : {"g1"}, timestamp : 1..MaxTime,
     risk : {"Review", "Block"}, reason : {{<<"a">>}},
     user_id_str : {"u1"}]

NextAudit ==
    \/ Tick
    \/ \E res \in AuditResults : res.timestamp <= now /\ CallAddAuditLog(res)
    \/ \E i \in AuditIds : DeleteAuditLog(i)
    \/ \E limit \in 1..MaxLogs, offset \in 0..MaxLogs :
          ListAuditLogs(limit, offset)

SpecAudit == InitPlugin(DefaultConfig) /\ [][NextAudit]_vars

\* C7: with no mutation in between, the pages a listing with one limit k
\* returns for the offsets 0, k, 2k, ... are in (message_timestamp DESC,
\* id DESC) order across pages, hold stored entries only, none of them
\* twice, and, once a page comes back short, all the stored entries; this
\* also when entries share a timestamp.
C7_PagesCoverOnce ==
    obs.op = "get_audit_logs" =>
        /\ \A i, j \in 1..Len(obs.seen) : i < j =>
              \/ obs.seen[i].message_timestamp > obs.seen[j].message_timestamp
              \/ /\ obs.seen[i].message_timestamp = obs.seen[j].message_timestamp
                 /\ obs.seen[i].id > obs.seen[j].id
        /\ \A i \in 1..Len(obs.seen) : obs.seen[i] \in audit_logs
        /\ Len(obs.rows) < obs.limit =>
              {obs.seen[i] : i \in 1..Len(obs.seen)} = audit_logs

\* Three entries, two of them of one timestamp, were listed to the end one
\* entry a page.
C7_Witness ==
    /\ obs.op = "get_audit_logs"
    /\ obs.limit = 1
    /\ obs.rows = <<>>
    /\ Len(obs.seen) = 3
    /\ obs.seen[1].message_timestamp = obs.seen[2].message_timestamp

(***************************************************************************)
(* SpecMatcher: the flow with the local text matcher, one of its two local *)
(* matchers loaded by build(S), and detect_text calls on both.             *)
(***************************************************************************)
InitMatcher ==
    /\ config = DefaultConfig
    /\ \E S \in PatternSets, c \in {"text", "userid"} :
          /\ text_censor =
                 Build(CreateCensor("Local", FALSE),
                       IF c = "text" THEN S ELSE {})
          /\ userid_censor =
                 Build(LocalCensor(UseridConfig),
                       IF c = "userid" THEN S ELSE {})
    /\ image_censor = NoCensor
    /\ blacklist = {}
    /\ sensitive_words = {}
    /\ audit_logs = {}
    /\ now = 1
    /\ refreshed = userid_censor.patterns
    /\ PluginInit

NextMatcher ==
    \/ \E c \in {"text", "userid"}, x \in Texts : DetectStart(c, x)
    \/ DetectStep
    \/ DetectEnd

SpecMatcher == InitMatcher /\ [][NextMatcher]_vars

\* C1: in substring mode (the text matcher the flow builds for provider
\* "Local"), detect_text on input x with the set S loaded answers Block with
\* reason exactly the words of S that occur in x as a contiguous substring
\* when there is one, and Pass with an empty reason otherwise.
C1_SubstringMatch ==
    (obs.op = "detect_text" /\ obs.censor = "text") =>
        LET hits == {w \in obs.snap : IsSubstring(w, obs.x)}
        IN /\ obs.reason = hits
           /\ obs.risk = IF hits # {} THEN "Block" ELSE "Pass"

\* A text that holds two loaded words which overlap, one of them inside the
\* other, was scanned and both were reported.
C1_Witness ==
    /\ obs.op = "detect_text" /\ obs.censor = "text"
    /\ obs.risk = "Block"
    /\ Cardinality(obs.reason) = 2
    /\ \E v, w \in obs.reason : v # w /\ IsSubstring(v, w)
    /\ \E w \in obs.snap : w = obs.x

\* C2: in exact-identifier mode (the identifier matcher of the flow),
\* detect_text on input x answers Block iff x is one of the loaded
\* identifiers as a whole, and Pass otherwise, substrings not counting.
C2_ExactMatch ==
    (obs.op = "detect_text" /\ obs.censor = "userid") =>
        /\ obs.risk = IF obs.x \in obs.snap THEN "Block" ELSE "Pass"
        /\ obs.reason = IF obs.x \in obs.snap THEN {obs.x} ELSE {}

\* An identifier that only contains a loaded one passed.
C2_Witness ==
    /\ obs.op = "detect_text" /\ obs.censor = "userid"
    /\ obs.risk = "Pass"
    /\ \E w \in obs.snap : IsSubstring(w, obs.x) /\ w # obs.x

(***************************************************************************)
(* The periodic refresh of the matchers, with the store changing and texts *)
(* being screened while it runs.                                           *)
(***************************************************************************)
RefreshWords == {<<"a">>, <<"b">>}
RefreshUsers == {<<"a", "b">>}
RefreshTexts == {<<"a", "b">>}

InitRefresh ==
    \E provider \in {"Local", "LLM"} :
        InitPlugin([DefaultConfig EXCEPT !.text_censor_provider = provider])

NextRefresh ==
    \/ UpdateGetBlacklist
    \/ UpdateBuildUserid
    \/ UpdateGetSensitiveWords
    \/ UpdateBuildText
    \/ \E u \in RefreshUsers : BeginAddBlacklistEntry("webui", u, "r1")
    \/ ExecAddBlacklistEntry("webui")
    \/ \E w \in RefreshWords : BeginAddSensitiveWord("webui", w)
    \/ ExecAddSensitiveWord("webui")
    \/ \E i \in DeletableIds(sensitive_words) : DeleteSensitiveWord(i)
    \/ \E x \in RefreshTexts : DetectStart("text", x)
    \/ DetectStep
    \/ DetectEnd

SpecRefresh == InitRefresh /\ [][NextRefresh]_vars

\* What a matcher with the set S loaded finds in x: the words of S inside x
\* for the text matcher, x itself for the identifier matcher.
Found(c, S, x) ==
    IF c = "text" THEN {w \in S : IsSubstring(w, x)} ELSE S \cap {x}

\* C3: a detect_text call that ran while build replaced the loaded set
\* answers with what one generation finds in its input, the set loaded when
\* the call started or the set loaded when it ended, in full: never words of
\* the one together with words of the other.
C3_OneGeneration ==
    obs.op = "detect_text" =>
        \/ obs.reason = Found(obs.censor, obs.snap, obs.x)
        \/ obs.reason = Found(obs.censor, obs.live, obs.x)

\* A scan of the text matcher ended after a build had replaced the set it
\* started with, and the two sets find different words in its input.
C3_Witness ==
    /\ obs.op = "detect_text" /\ obs.censor = "text"
    /\ obs.snap # obs.live
    /\ Found("text", obs.snap, obs.x) # {}
    /\ Found("text", obs.live, obs.x) # {}
    /\ Found("text", obs.snap, obs.x) # Found("text", obs.live, obs.x)

\* C10: when a run of _update_censors ends without error and the text
\* matcher has build, no word that was absent from the store throughout the
\* run is loaded, so a text holding none of the other words passes.
C10_DeletedWordNotMatched ==
    (obs.op = "_update_censors" /\ obs.ok /\ SupportsBuild(text_censor)) =>
        /\ text_censor.patterns \cap obs.gone = {}
        /\ \A x \in Texts :
              (\A w \in Words \ obs.gone : ~IsSubstring(w, x)) =>
                  Found("text", text_censor.patterns, x) = {}

\* The refresh ended after a word the matcher had loaded was deleted from
\* the store, while another word stayed.
C10_Witness ==
    /\ obs.op = "_update_censors" /\ obs.ok /\ SupportsBuild(text_censor)
    /\ obs.prev_text \cap obs.gone # {}
    /\ text_censor.patterns # {}

(***************************************************************************)
(* The refresh of a store that holds many blacklist entries: the           *)
(* administrator enters them one after the other, then the refresh runs    *)
(* until it has loaded the identifier matcher.                             *)
(***************************************************************************)
\* One row more than a listing with the default limit returns.
BulkRows == DefaultLimit + 1

RECURSIVE Binary(_, _)
Binary(n, len) ==
    IF len = 0 THEN <<>>
    ELSE Append(Binary(n \div 2, len - 1), IF n % 2 = 0 THEN "a" ELSE "b")

\* The n-th identifier the administrator enters, all of them different.
BulkUser(n) == Binary(n, 7)

NextBulk ==
    \/ /\ Cardinality(blacklist) < BulkRows
       /\ BeginAddBlacklistEntry("webui",
                                 BulkUser(Cardinality(blacklist) + 1), "r1")
    \/ ExecAddBlacklistEntry("webui")
    \/ /\ Cardinality(blacklist) = BulkRows
       /\ userid_censor.patterns = {}
       /\ UpdateGetBlacklist
    \/ UpdateBuildUserid
    \/ UpdateGetSensitiveWords
    \/ UpdateBuildText

SpecBulk == InitPlugin(DefaultConfig) /\ [][NextBulk]_vars

\* C4: when a run of _update_censors ends without error, the store not
\* having changed meanwhile, the identifier matcher holds exactly the
\* identifiers of all blacklist rows and, the text matcher having build, the
\* text matcher holds exactly the words of all sensitive-word rows, however
\* many rows there are.
C4_RefreshLoadsAll ==
    (obs.op = "_update_censors" /\ obs.ok /\ ~obs.stale) =>
        /\ userid_censor.patterns = {r.identifier : r \in blacklist}
        /\ SupportsBuild(text_censor) =>
               text_censor.patterns = {r.word : r \in sensitive_words}

\* C26: no notification reaches the plugin (the queue of _notify_change is
\* never set, and nothing in the plugin reads one); once the store has
\* stopped changing, a run of _update_censors that ends without error
\* leaves the identifier matcher with the identifiers of the blacklist,
\* no more and no fewer, and the text matcher, when it has build, with the
\* words of the sensitive-word table.
C26_ConvergesWithoutNotifications ==
    (/\ obs.op = "_update_censors" /\ obs.ok /\ ~obs.stale
     /\ \A c \in Callers : call[c].op = "idle") =>
        /\ \A r \in blacklist : r.identifier \in userid_censor.patterns
        /\ \A u \in userid_censor.patterns :
              RowWith(blacklist, "identifier", u) # {}
        /\ SupportsBuild(text_censor) =>
              /\ \A r \in sensitive_words : r.word \in text_censor.patterns
              /\ \A w \in text_censor.patterns :
                    RowWith(sensitive_words, "word", w) # {}

(***************************************************************************)
(* New members under review, and the screening of group messages.          *)
(***************************************************************************)
Groups == {"g1", "g2"}
Members == {"u1"}

Plain(text) == [type |-> "Plain", text |-> text]
Image(url) == [type |-> "Image", url |-> url]

\* if group_list and str(group_id) not in group_list_str: return
InGroupList(cfg, group_id) ==
    cfg.group_list = {} \/ group_id \in cfg.group_list

\* dict.get, dict.pop(key, None) and dict[key] = value on the watchlist.
\* What get returns is <<>> for None and <<expiry>> for an expiry.
WatchGet(wl, key) == IF key \in DOMAIN wl THEN <<wl[key]>> ELSE <<>>
WatchPop(wl, key) == [k \in DOMAIN wl \ {key} |-> wl[k]]
\* A set that keeps the entry a key already has.
WatchSetDefault(wl, key, expiry_ts) ==
    [k \in DOMAIN wl \cup {key} |->
        IF k \in DOMAIN wl THEN wl[k] ELSE expiry_ts]

WatchSet(wl, key, expiry_ts) ==
    [k \in DOMAIN wl \cup {key} |-> IF k = key THEN expiry_ts ELSE wl[k]]

\* A review period that still counts at the second it ends.
ProbationActiveInclusive(cfg, expiry, now_ts) ==
    cfg.enable_review_new_members /\ TruthyInt(expiry) /\ expiry[1] >= now_ts

\* group_censor: enable_review_new_members and expiry and expiry > now_ts.
ProbationActive(cfg, expiry, now_ts) ==
    cfg.enable_review_new_members /\ TruthyInt(expiry) /\ expiry[1] > now_ts

\* group_censor: elif expiry and expiry <= now_ts.
ProbationExpired(expiry, now_ts) == TruthyInt(expiry) /\ expiry[1] <= now_ts

\* A handler that screens only where group screening is switched on.
ShouldScreenBaselineOnly(cfg, should_run) == cfg.enable_group_msg_censor

\* group_censor: the negation of its last early return.
ShouldScreen(cfg, should_run) == should_run \/ cfg.enable_group_msg_censor

\* A sweep that spares the entries whose review ends at this very second.
CleanupWatchlistStrict ==
    /\ new_member_watchlist' =
           [k \in {q \in DOMAIN new_member_watchlist :
                      ~(new_member_watchlist[q] < now)} |->
               new_member_watchlist[k]]
    /\ obs' = [op |-> "_cleanup_watchlist", now_ts |-> now,
               before |-> new_member_watchlist]
    /\ UNCHANGED <<config, sched, ev, refreshed, flowVars, storeVars, now, upd, det, call>>

\* AIOCensor._cleanup_watchlist.
CleanupWatchlist ==
    /\ new_member_watchlist' =
           [k \in {q \in DOMAIN new_member_watchlist :
                      ~(new_member_watchlist[q] <= now)} |->
               new_member_watchlist[k]]
    /\ obs' = [op |-> "_cleanup_watchlist", now_ts |-> now,
               before |-> new_member_watchlist]
    /\ UNCHANGED <<config, sched, ev, refreshed, flowVars, storeVars, now, upd, det, call>>

\* AIOCensor.handle_group_increase_for_review on a group_increase notice.
HandleGroupIncreaseForReview(group_id, user_id) ==
    /\ IF config.enable_review_new_members /\ InGroupList(config, group_id)
       THEN /\ new_member_watchlist' =
                   WatchSet(new_member_watchlist, <<group_id, user_id>>,
                            now + config.review_new_members_duration)
            /\ obs' = [op |-> "handle_group_increase_for_review",
                       armed |-> TRUE, key |-> <<group_id, user_id>>,
                       expiry_ts |-> now + config.review_new_members_duration,
                       now_ts |-> now, before |-> new_member_watchlist]
       ELSE /\ UNCHANGED new_member_watchlist
            /\ obs' = [op |-> "handle_group_increase_for_review",
                       armed |-> FALSE, key |-> <<group_id, user_id>>,
                       now_ts |-> now, before |-> new_member_watchlist]
    /\ UNCHANGED <<config, sched, ev, refreshed, flowVars, storeVars, now, upd, det, call>>

(***************************************************************************)
(* AIOCensor.handle_message.  A submit of the flow answers with a verdict, *)
(* with nothing (the detector raised and the flow logged it), or raises    *)
(* (no detector is bound).                                                 *)
(***************************************************************************)
Raised == [kind |-> "raise"]
Nothing == [kind |-> "none"]
Verdict(risk, reason) == [kind |-> "res", risk |-> risk, reason |-> reason]

\* A detector call that raised.
DetectorError == [kind |-> "error"]

\* What a call of a remote detector may do: raise, or answer.
RemoteAnswers ==
    {DetectorError, Verdict("Pass", {})}
        \cup {Verdict(risk, {<<"b">>}) : risk \in {"Review", "Block"}}

\* An except branch that answers Block for the call that raised.
CaughtAsBlock(answer) ==
    IF answer.kind = "error" THEN Verdict("Block", {}) ELSE answer

\* An except branch that raises again.
CaughtAndRaised(answer) == IF answer.kind = "error" THEN Raised ELSE answer

\* The try/except of submit_text and of submit_image around the detector
\* call: the error is logged and the method falls through, returning None.
Caught(answer) == IF answer.kind = "error" THEN Nothing ELSE answer

\* What submit_text or submit_image gets from a remote detector, its
\* failure included.
RemoteVerdicts == {Caught(answer) : answer \in RemoteAnswers}

\* LocalCensor.detect_text as one step.
DetectText(censor, content) ==
    LET reasons == IF SubstringMode(censor)
                   THEN {w \in censor.patterns : IsSubstring(w, content)}
                   ELSE censor.patterns \cap {content}
    IN Verdict(IF reasons # {} THEN "Block" ELSE "Pass", reasons)

\* A submit_text that calls whatever is bound without looking first.
SubmitTextUnchecked(content) ==
    IF text_censor.kind = "LocalCensor"
    THEN {DetectText(text_censor, content)}
    ELSE RemoteVerdicts

\* submit_text up to the detector call: unbound it raises before any call,
\* bound it gets the detector's answer or its error.
TextCalls(content) ==
    IF text_censor.kind = None THEN {Raised}
    ELSE IF text_censor.kind = "LocalCensor"
         THEN {DetectText(text_censor, content)}
    ELSE RemoteAnswers

\* The same of submit_image.
ImageCalls(content) ==
    IF image_censor.kind = None THEN {Raised} ELSE RemoteAnswers

\* CensorFlow.submit_text.
SubmitText(content) == {Caught(answer) : answer \in TextCalls(content)}

\* CensorFlow.submit_image.
SubmitImage(content) == {Caught(answer) : answer \in ImageCalls(content)}

\* A log that is written whatever the configuration says.
AuditAlways(cfg) == TRUE

\* config.get("enable_audit_log", True).
AuditEnabled(cfg) == cfg.enable_audit_log

\* `if res and res.risk_level != RiskLevel.Pass`.
Flagged(out) == out.kind = "res" /\ out.risk # "Pass"

\* A run of the loop of handle_message: the results it stored in the audit
\* log, whether it stopped the event, whether an exception ended it and
\* whether that was the Store's; and for each part it submitted, in order,
\* what the call did, whether the part was logged, whether it stopped the
\* event.
NoRun ==
    [logged |-> <<>>, stopped |-> FALSE, raised |-> FALSE,
     store_failed |-> FALSE, parts |-> <<>>]

Part(answer, logged, stop) ==
    [answer |-> answer, logged |-> logged, stop |-> stop]

RECURSIVE HandleMessage(_, _, _)
HandleMessage(chain, source, sender) ==
    IF chain = <<>> THEN {NoRun}
    ELSE LET comp == Head(chain)
             rest == HandleMessage(Tail(chain), source, sender)
             calls == IF comp.type = "Plain" THEN TextCalls(comp.text)
                      ELSE IF comp.type = "Image" /\ config.enable_image_censor
                           THEN ImageCalls(comp.url)
                      ELSE {}
             res(o) == [content |-> IF comp.type = "Plain" THEN comp.text
                                    ELSE comp.url,
                        source |-> source, timestamp |-> now,
                        risk |-> o.risk, reason |-> o.reason,
                        user_id_str |-> sender]
             audit == AuditEnabled(config)
             logged(o) == IF audit THEN <<res(o)>> ELSE <<>>
             ended(a, failed) ==
                 [NoRun EXCEPT !.raised = TRUE, !.store_failed = failed,
                               !.parts = <<Part(a, FALSE, FALSE)>>]
             after(a) ==
                 LET o == Caught(a)
                 IN IF o.kind = "raise" THEN {ended(a, FALSE)}
                    ELSE IF ~Flagged(o)
                         THEN {[r EXCEPT !.parts =
                                            <<Part(a, FALSE, FALSE)>> \o @] :
                                  r \in rest}
                    ELSE (IF audit THEN {ended(a, TRUE)} ELSE {})
                         \cup (IF o.risk = "Block"
                               THEN {[NoRun EXCEPT
                                         !.logged = logged(o),
                                         !.stopped = TRUE,
                                         !.parts = <<Part(a, audit, TRUE)>>]}
                               ELSE {[r EXCEPT
                                         !.logged = logged(o) \o @,
                                         !.parts =
                                            <<Part(a, audit, FALSE)>> \o @] :
                                        r \in rest})
         IN IF calls = {} THEN rest ELSE UNION {after(a) : a \in calls}

\* The ids uuid.uuid4() may draw for n new rows of the audit log.
NewAuditIds(tbl, n) ==
    {ids \in [1..n -> FreshAuditIds(tbl)] :
        \A i, j \in 1..n : ids[i] = ids[j] => i = j}

\* What a handler did, as every handler reports it: a run of handle_message,
\* whether an exception left the handler, and the level the identifier
\* check gave where it ran.
Handled(run, escaped, ident) ==
    [stopped |-> run.stopped, raised |-> run.raised,
     logged |-> Len(run.logged), audit |-> AuditEnabled(config),
     store_failed |-> run.store_failed, parts |-> run.parts,
     escaped |-> escaped, ident |-> ident, before |-> audit_logs]

\* The rows a handler's calls of add_audit_log insert.
Inserted(run, ids) ==
    {AuditRow(ids[i], run.logged[i]) : i \in 1..Len(run.logged)}

\* AIOCensor.group_censor, handle_message included, for the event the host
\* hands it.
GroupCensorBody(group_id, sender, chain) ==
    LET sender_key == <<group_id, sender>>
        expiry == WatchGet(new_member_watchlist, sender_key)
        listed == InGroupList(config, group_id)
        should_run == listed /\ ProbationActive(config, expiry, now)
        expired == listed /\ ~should_run /\ ProbationExpired(expiry, now)
        screened == listed /\ ShouldScreen(config, should_run)
        seen == [op |-> "group_censor", key |-> sender_key, now_ts |-> now,
                 expiry |-> expiry, listed |-> listed, active |-> should_run,
                 screened |-> screened]
    IN /\ new_member_watchlist' =
              IF expired THEN WatchPop(new_member_watchlist, sender_key)
              ELSE new_member_watchlist
       /\ IF screened
          THEN \E run \in HandleMessage(chain, group_id, sender) :
                 \E ids \in NewAuditIds(audit_logs, Len(run.logged)) :
                    /\ audit_logs' = audit_logs \cup Inserted(run, ids)
                    /\ obs' = seen @@ Handled(run, FALSE, <<>>)
          ELSE /\ UNCHANGED audit_logs
               /\ obs' = seen @@ Handled(NoRun, FALSE, <<>>)
       /\ UNCHANGED <<config, sched, refreshed, flowVars, blacklist,
                      sensitive_words, now, upd, det, call>>

\* group_censor for a group message, no event of the host in view.
GroupCensor(group_id, sender, chain) ==
    /\ GroupCensorBody(group_id, sender, chain)
    /\ UNCHANGED ev

WatchChains ==
    {<<Plain(<<"b">>)>>, <<Image(<<"b">>), Plain(<<"a">>), Plain(<<"b">>)>>}

\* The plugin after initialize(): one sensitive word stored and loaded;
\* the switches of the group handlers as the administrator set them.
InitWatch ==
    /\ \E review, baseline, audit \in BOOLEAN, group_list \in {{}, {"g1"}} :
          config = [DefaultConfig EXCEPT
                       !.enable_review_new_members = review,
                       !.enable_group_msg_censor = baseline,
                       !.enable_audit_log = audit,
                       !.group_list = group_list]
    /\ text_censor = Build(CreateCensor("Local", FALSE), {<<"a">>})
    /\ image_censor = NoCensor
    /\ userid_censor = LocalCensor(UseridConfig)
    /\ blacklist = {}
    /\ sensitive_words = AddSensitiveWord({}, 1, <<"a">>, 1)
    /\ audit_logs = {}
    /\ now = 1
    /\ refreshed = userid_censor.patterns
    /\ PluginInit

NextWatch ==
    \/ Tick
    \/ CleanupWatchlist
    \/ \E g \in Groups, u \in Members : HandleGroupIncreaseForReview(g, u)
    \/ \E g \in Groups, u \in Members, chain \in WatchChains :
          GroupCensor(g, u, chain)

SpecWatch == InitWatch /\ [][NextWatch]_vars

\* C8: the check of group_censor for a sender at time now is active exactly
\* when the watchlist holds an entry for (group, sender) whose expiry is
\* later than now; an entry whose expiry is now or earlier is never active,
\* and the check that finds one removes it.
C8_ProbationCheck ==
    obs.op = "group_censor" =>
        /\ obs.active <=> (obs.expiry # <<>> /\ obs.expiry[1] > obs.now_ts)
        /\ (obs.expiry # <<>> /\ obs.expiry[1] <= obs.now_ts) =>
               /\ ~obs.active
               /\ obs.key \notin DOMAIN new_member_watchlist

\* A message came at the very second the sender's review ended: the entry
\* was found expired and is gone.
C8_Witness ==
    /\ obs.op = "group_censor"
    /\ obs.expiry = <<obs.now_ts>>
    /\ ~obs.active
    /\ obs.key \notin DOMAIN new_member_watchlist

\* C9: a group message of a sender whose entry has not expired goes to
\* handle_message even with enable_group_msg_censor off; with it off, a
\* message of a sender whose entry has expired, or who has none, does not.
C9_ProbationForcesScreening ==
    obs.op = "group_censor" =>
        /\ (obs.expiry # <<>> /\ obs.expiry[1] > obs.now_ts) => obs.screened
        /\ ((obs.expiry = <<>> \/ obs.expiry[1] <= obs.now_ts)
                /\ ~config.enable_group_msg_censor) => ~obs.screened

\* With group screening off, a message of a member under review was
\* screened and stopped.
C9_Witness ==
    /\ obs.op = "group_censor"
    /\ ~config.enable_group_msg_censor
    /\ obs.expiry # <<>> /\ obs.expiry[1] > obs.now_ts
    /\ obs.screened /\ obs.stopped

(***************************************************************************)
(* The submit operations of the flow, called one at a time.  Message and   *)
(* CensorResult (package common.types) are not part of the sources at      *)
(* hand; they are records of the fields the sources read and write.        *)
(***************************************************************************)
\* Message(content, source).
Message(content, source) ==
    [content |-> content, source |-> source, timestamp |-> now]

\* A result that keeps the level and drops the reasons.
CensorResultBare(message, risk_level, reason) ==
    [message |-> message, risk_level |-> risk_level, reason |-> {}]

\* CensorResult(msg, risk, reasons).
CensorResult(message, risk_level, reason) ==
    [message |-> message, risk_level |-> risk_level, reason |-> reason]

\* A reason that names nobody.
BlacklistReasonAnonymous(reasons) == <<"blacklisted", {}>>

\* submit_userid: the reason it reports for a match.
BlacklistReason(reasons) == <<"blacklisted", reasons>>

\* CensorFlow.submit_userid; the identifier matcher is in memory and its
\* detect_text does not fail.
SubmitUserid(userid, source) ==
    LET v == DetectText(userid_censor, userid)
    IN CensorResult(Message(userid, source), v.risk,
                    IF v.reason # {} THEN {BlacklistReason(v.reason)} ELSE {})

\* What submit_text or submit_image hands back for an outcome of the
\* detector: the result, None when the detector raised, or the error.
Returned(content, source, out) ==
    IF out.kind = "res"
    THEN CensorResult(Message(content, source), out.risk, out.reason)
    ELSE IF out.kind = "none" THEN None
    ELSE "RuntimeError"

\* Whether the detector was called at all.
Invoked(out) == out.kind # "raise"

SubmitOps == {"submit_text", "submit_image", "submit_userid"}

\* Whether the submit before this one ended in the except branch.
AfterError == obs.op \in SubmitOps /\ obs.answer.kind = "error"

\* The answers of the detector that submit turns into `out`.
AnswersBehind(out) == {a \in {out, DetectorError} : Caught(a) = out}

CallSubmitText(content, source) ==
    /\ \E out \in SubmitText(content) :
         \E answer \in AnswersBehind(out) :
            obs' = [op |-> "submit_text", content |-> content,
                    source |-> source, bound |-> text_censor.kind # None,
                    invoked |-> Invoked(out), answer |-> answer,
                    out |-> out, after_error |-> AfterError,
                    before |-> flowVars,
                    result |-> Returned(content, source, out)]
    /\ UNCHANGED <<config, sched, ev, refreshed, flowVars, storeVars,
                   new_member_watchlist, now, upd, det, call>>

CallSubmitImage(content, source) ==
    /\ \E out \in SubmitImage(content) :
         \E answer \in AnswersBehind(out) :
            obs' = [op |-> "submit_image", content |-> content,
                    source |-> source, bound |-> image_censor.kind # None,
                    invoked |-> Invoked(out), answer |-> answer,
                    out |-> out, after_error |-> AfterError,
                    before |-> flowVars,
                    result |-> Returned(content, source, out)]
    /\ UNCHANGED <<config, sched, ev, refreshed, flowVars, storeVars,
                   new_member_watchlist, now, upd, det, call>>

CallSubmitUserid(userid, source) ==
    /\ obs' = [op |-> "submit_userid", userid |-> userid, source |-> source,
               answer |-> DetectText(userid_censor, userid),
               after_error |-> AfterError, before |-> flowVars,
               result |-> SubmitUserid(userid, source)]
    /\ UNCHANGED <<config, sched, ev, refreshed, flowVars, storeVars,
                   new_member_watchlist, now, upd, det, call>>

\* submit_userid had the matcher raise: its except branch.
CallSubmitUseridCaught(userid, source) ==
    /\ LET out == Caught(DetectorError)
       IN obs' = [op |-> "submit_userid", userid |-> userid,
                  source |-> source, answer |-> DetectorError, out |-> out,
                  after_error |-> AfterError, before |-> flowVars,
                  result |-> Returned(userid, source, out)]
    /\ UNCHANGED <<config, sched, ev, refreshed, flowVars, storeVars,
                   new_member_watchlist, now, upd, det, call>>

(***************************************************************************)
(* CensorFlow.close.                                                       *)
(***************************************************************************)
\* `is`: each binding comes from a call of its own to _create_censor or to
\* a constructor, so no two bindings are one instance.
SameInstance(a, b) == FALSE

\* The bindings close() goes through, in its order.
ToClose ==
    (IF text_censor.kind # None THEN <<"text">> ELSE <<>>)
        \o (IF image_censor.kind # None
                /\ ~SameInstance(image_censor, text_censor)
            THEN <<"image">> ELSE <<>>)
        \o (IF userid_censor.kind # None THEN <<"userid">> ELSE <<>>)

\* The channels a detector is bound to.
Bound ==
    {ch \in {"text", "image", "userid"} :
        (CASE ch = "text" -> text_censor
           [] ch = "image" -> image_censor
           [] OTHER -> userid_censor).kind # None}

\* close(): the calls run in one try block; the first that raises ends it.
Close ==
    /\ \E done \in 0..Len(ToClose) :
          obs' = [op |-> "close", bound |-> Bound,
                  closed |-> [ch \in {"text", "image", "userid"} |->
                                 Cardinality({i \in 1..done :
                                                 ToClose[i] = ch})],
                  raised |-> done < Len(ToClose)]
    /\ UNCHANGED <<config, sched, ev, refreshed, flowVars, storeVars,
                   new_member_watchlist, now, upd, det, call>>

(***************************************************************************)
(* The flow as configured, its matchers loaded by the refresh from a store *)
(* of one word and one identifier.                                         *)
(***************************************************************************)
FlowTexts == {<<"a", "b">>, <<"b">>}
FlowUsers == {<<"a", "b">>, <<"b">>}

InitFlow ==
    /\ \E text_provider \in Providers, image_provider \in {"", "LLM"},
          enable_image_censor, textFails, imageFails \in BOOLEAN :
          /\ config = [DefaultConfig EXCEPT
                          !.text_censor_provider = text_provider,
                          !.image_censor_provider = image_provider,
                          !.enable_image_censor = enable_image_censor]
          /\ FlowInit(config, textFails, imageFails)
    /\ blacklist = AddBlacklistEntry({}, 1, <<"a", "b">>, "r1", 1)
    /\ sensitive_words = AddSensitiveWord({}, 1, <<"a">>, 1)
    /\ audit_logs = {}
    /\ now = 1
    /\ refreshed = {}
    /\ PluginInit

NextFlow ==
    \/ UpdateGetBlacklist
    \/ UpdateBuildUserid
    \/ UpdateGetSensitiveWords
    \/ UpdateBuildText
    \/ \E x \in FlowTexts : CallSubmitText(x, "g1")
    \/ \E x \in FlowTexts : CallSubmitImage(x, "g1")
    \/ \E u \in FlowUsers : CallSubmitUserid(u, "g1")
    \/ \E u \in FlowUsers : CallSubmitUseridCaught(u, "g1")
    \/ Close

SpecFlow == InitFlow /\ [][NextFlow]_vars

\* C12: when a text detector is bound and its call succeeds, submit_text
\* returns a result whose level and reasons are the ones the detector
\* answered for the content, and whose message carries the content and the
\* source it was called with.
C12_TextResultIsVerdict ==
    (obs.op = "submit_text" /\ obs.bound /\ obs.out.kind = "res") =>
        /\ obs.result.risk_level = obs.out.risk
        /\ obs.result.reason = obs.out.reason
        /\ obs.result.message.content = obs.content
        /\ obs.result.message.source = obs.source

\* The local matcher, loaded by the refresh, blocked a text for the word in
\* it.
C12_Witness ==
    /\ obs.op = "submit_text" /\ obs.bound /\ obs.out.kind = "res"
    /\ text_censor.kind = "LocalCensor"
    /\ obs.result.risk_level = "Block"
    /\ obs.result.reason = {<<"a">>}
    /\ obs.content = <<"a", "b">>

\* C13: submit_text and submit_image raise the not-configured error exactly
\* when no detector is bound for their channel, and then no detector was
\* called.
C13_NotConfigured ==
    obs.op \in {"submit_text", "submit_image"} =>
        /\ (obs.out.kind = "raise") <=> ~obs.bound
        /\ ~obs.bound => ~obs.invoked

\* Image screening is switched off while a text detector is bound: a
\* submit_image raised with nothing called.
C13_Witness ==
    /\ obs.op = "submit_image"
    /\ ~obs.bound /\ obs.out.kind = "raise" /\ ~obs.invoked
    /\ text_censor.kind # None

\* C17: close() closes every bound detector once, also when the close of
\* another detector raises.
C17_ClosesEveryDetector ==
    obs.op = "close" => \A ch \in obs.bound : obs.closed[ch] = 1

\* C29: when the detector raises in submit_text, submit_image or
\* submit_userid, the method returns None and raises nothing, the three
\* bindings are the ones it found; and a submit called right after such a
\* call hands back the result of the verdict its detector answers.
C29_DetectorErrorCaught ==
    obs.op \in SubmitOps =>
        /\ obs.answer.kind = "error" =>
              /\ obs.result = None
              /\ obs.before = flowVars
        /\ (obs.after_error /\ obs.answer.kind = "res") =>
              obs.result.risk_level = obs.answer.risk

\* The image detector answered Review right after a call in which a
\* detector raised.
C29_Witness ==
    /\ obs.op = "submit_image"
    /\ obs.after_error
    /\ obs.answer.kind = "res"
    /\ obs.result.risk_level = "Review"

(***************************************************************************)
(* Identifier screening while the blacklist changes and the refresh runs.  *)
(***************************************************************************)
NextIdent ==
    \/ UpdateGetBlacklist
    \/ UpdateBuildUserid
    \/ UpdateGetSensitiveWords
    \/ UpdateBuildText
    \/ \E u \in RefreshUsers : BeginAddBlacklistEntry("webui", u, "r1")
    \/ ExecAddBlacklistEntry("webui")
    \/ \E i \in DeletableIds(blacklist) : DeleteBlacklistEntry(i)
    \/ \E u \in FlowUsers : CallSubmitUserid(u, "g1")

SpecIdent == InitPlugin(DefaultConfig) /\ [][NextIdent]_vars

\* C11: with no refresh in flight, submit_userid(id, source) answers Block
\* when id is among the identifiers loaded by the last refresh that ended
\* without error and Pass otherwise, in a result whose message carries id
\* and source.
C11_BlockIffRefreshed ==
    (obs.op = "submit_userid" /\ upd.pc = "idle") =>
        /\ obs.result.risk_level =
               IF obs.userid \in refreshed THEN "Block" ELSE "Pass"
        /\ obs.result.message.content = obs.userid
        /\ obs.result.message.source = obs.source

\* C34: a result of submit_userid is Block or Pass; its reason set is
\* non-empty exactly when it is not Pass; a Block carries the one reason
\* that names the identifier submitted, a Pass none.
C34_ReasonIffNotPass ==
    obs.op = "submit_userid" =>
        /\ obs.result.risk_level \in {"Block", "Pass"}
        /\ obs.result.reason # {} <=> obs.result.risk_level # "Pass"
        /\ obs.result.risk_level = "Block" =>
              obs.result.reason = {<<"blacklisted", {obs.userid}>>}

\* A blacklisted identifier was submitted after the refresh loaded it, and
\* blocked.
C34_Witness ==
    /\ obs.op = "submit_userid"
    /\ obs.result.risk_level = "Block"
    /\ obs.userid \in userid_censor.patterns
    /\ obs.result.reason # {}

\* C16: when a run of _update_censors ends with an error, at whichever
\* step, the identifier matcher and the text matcher hold the sets they
\* held when the run started.
C16_FailedRefreshKeepsState ==
    (obs.op = "_update_censors" /\ ~obs.ok) =>
        /\ userid_censor.patterns = obs.prev_userid
        /\ text_censor.patterns = obs.prev_text

\* C22: the sweep at time now removes every watchlist entry whose expiry
\* is now or earlier and leaves every entry whose expiry is later than now
\* as it was; it adds none.
C22_SweepRemovesExpired ==
    obs.op = "_cleanup_watchlist" =>
        /\ DOMAIN new_member_watchlist \subseteq DOMAIN obs.before
        /\ \A k \in DOMAIN obs.before :
              IF obs.before[k] <= obs.now_ts
              THEN k \notin DOMAIN new_member_watchlist
              ELSE /\ k \in DOMAIN new_member_watchlist
                   /\ new_member_watchlist[k] = obs.before[k]

\* A sweep found one entry ending at this very second and one ending
\* later: the first is gone, the second stayed.
C22_Witness ==
    /\ obs.op = "_cleanup_watchlist"
    /\ \E k, l \in DOMAIN obs.before :
          /\ obs.before[k] = obs.now_ts
          /\ obs.before[l] > obs.now_ts
          /\ k \notin DOMAIN new_member_watchlist
          /\ l \in DOMAIN new_member_watchlist

\* C23: a join notice that arms (group, member) sets that key's expiry to
\* now + review_new_members_duration, whatever entry the key had, and
\* changes no other entry; a notice that does not arm changes nothing.
C23_ArmOverwrites ==
    obs.op = "handle_group_increase_for_review" =>
        IF obs.armed
        THEN /\ DOMAIN new_member_watchlist =
                    DOMAIN obs.before \cup {obs.key}
             /\ new_member_watchlist[obs.key] =
                    obs.now_ts + config.review_new_members_duration
             /\ \A k \in DOMAIN obs.before \ {obs.key} :
                    new_member_watchlist[k] = obs.before[k]
        ELSE new_member_watchlist = obs.before

\* A member under review joined again a second later: the entry has the
\* later expiry, and the entry of the other group is as it was.
C23_Witness ==
    /\ obs.op = "handle_group_increase_for_review" /\ obs.armed
    /\ obs.key \in DOMAIN obs.before
    /\ obs.before[obs.key] < new_member_watchlist[obs.key]
    /\ \E k \in DOMAIN obs.before :
          k # obs.key /\ new_member_watchlist[k] = obs.before[k]

(***************************************************************************)
(* One inbound message on its way through the handlers.  The host calls    *)
(* the handlers registered for the event in the order the class declares   *)
(* them; an event a handler stopped reaches no later handler.  What the    *)
(* host does with the event after a handler raised is the host's choice.   *)
(* A behaviour follows one message from its arrival to the end of its      *)
(* dispatch.                                                               *)
(* handle_group_increase_for_review is called too and returns at once for  *)
(* a message that is no notice.                                            *)
(***************************************************************************)
EventKinds == {"group", "private"}

\* An event as the host hands it to the first handler.
Event(kind, sender, chain, wake) ==
    [stage |-> "on_all_message", kind |-> kind,
     group_id |-> IF kind = "group" THEN "g1" ELSE "",
     unified_msg_origin |-> IF kind = "group" THEN "g1" ELSE "p1",
     sender_id |-> sender, message |-> chain,
     is_at_or_wake_command |-> wake,
     stopped |-> FALSE, invoked |-> FALSE, escaped |-> FALSE]

\* The handler the host calls after `handler` for an event not stopped.
NextHandler(e, handler) ==
    CASE handler = "on_all_message" ->
             IF e.kind = "group" THEN "group_censor" ELSE "private_censor"
      [] handler \in {"group_censor", "private_censor"} -> "on_llm_response"
      [] OTHER -> "done"

\* The event after a handler reported `seen`; `resume` is the host going on
\* with the event after a handler raised.
Dispatched(e, seen, resume) ==
    [e EXCEPT
        !.stage = IF seen.stopped THEN "done"
                  ELSE IF seen.escaped /\ ~resume THEN "done"
                  ELSE NextHandler(e, e.stage),
        !.stopped = @ \/ seen.stopped,
        !.invoked = @ \/ \E i \in DOMAIN seen.parts :
                            Invoked(seen.parts[i].answer),
        !.escaped = @ \/ seen.escaped]

\* The host takes up a message.
Arrive(kind, sender, chain, wake) ==
    /\ ev.stage = "idle"
    /\ ev' = Event(kind, sender, chain, wake)
    /\ obs' = [op |-> "arrive"]
    /\ UNCHANGED <<config, sched, refreshed, flowVars, storeVars,
                   new_member_watchlist, now, upd, det, call>>

\* The result of submit_userid as add_audit_log stores it: no extra is set.
IdentEntry(res) ==
    [content |-> res.message.content, source |-> res.message.source,
     timestamp |-> res.message.timestamp, risk |-> res.risk_level,
     reason |-> res.reason, user_id_str |-> <<>>]

\* AIOCensor.on_all_message.
OnAllMessage ==
    /\ ev.stage = "on_all_message"
    /\ LET res == SubmitUserid(ev.sender_id, ev.unified_msg_origin)
           ident == IF config.enable_blacklist THEN <<res.risk_level>>
                    ELSE <<>>
           runs ==
               IF config.enable_blacklist /\ res.risk_level = "Block"
               THEN IF AuditEnabled(config)
                    THEN {[NoRun EXCEPT !.store_failed = TRUE],
                          [NoRun EXCEPT !.logged = <<IdentEntry(res)>>,
                                        !.stopped = TRUE]}
                    ELSE {[NoRun EXCEPT !.stopped = TRUE]}
               ELSE IF config.enable_all_input_censor
                        \/ (config.enable_input_censor
                               /\ ev.is_at_or_wake_command)
                    THEN HandleMessage(ev.message, ev.unified_msg_origin,
                                       ev.sender_id)
               ELSE {NoRun}
       IN \E run \in runs :
             \E ids \in NewAuditIds(audit_logs, Len(run.logged)) :
                /\ audit_logs' = audit_logs \cup Inserted(run, ids)
                /\ obs' = [op |-> "on_all_message"]
                             @@ Handled(run,
                                        run.store_failed /\ run.parts = <<>>
                                            /\ ~run.raised,
                                        ident)
    /\ \E resume \in BOOLEAN : ev' = Dispatched(ev, obs', resume)
    /\ UNCHANGED <<config, sched, refreshed, flowVars, blacklist, sensitive_words,
                   new_member_watchlist, now, upd, det, call>>

\* The host calls group_censor for a group message.
DispatchGroupCensor ==
    /\ ev.stage = "group_censor"
    /\ GroupCensorBody(ev.group_id, ev.sender_id, ev.message)
    /\ \E resume \in BOOLEAN : ev' = Dispatched(ev, obs', resume)

\* AIOCensor.private_censor.
PrivateCensor ==
    /\ ev.stage = "private_censor"
    /\ \E run \in IF config.enable_private_msg_censor
                  THEN HandleMessage(ev.message, ev.unified_msg_origin,
                                     ev.sender_id)
                  ELSE {NoRun} :
          \E ids \in NewAuditIds(audit_logs, Len(run.logged)) :
             /\ audit_logs' = audit_logs \cup Inserted(run, ids)
             /\ obs' = [op |-> "private_censor"]
                          @@ Handled(run, FALSE, <<>>)
    /\ \E resume \in BOOLEAN : ev' = Dispatched(ev, obs', resume)
    /\ UNCHANGED <<config, sched, refreshed, flowVars, blacklist, sensitive_words,
                   new_member_watchlist, now, upd, det, call>>

\* An LLMResponse: completion_text alone, or a result_chain.
Responses ==
    {[completion_text |-> <<"a">>, result_chain |-> <<>>],
     [completion_text |-> <<>>, result_chain |-> <<Plain(<<"a">>)>>]}

\* output_censor on a response without result_chain: one submit_text, with
\* no try around it.
OutputText(content, source, sender) ==
    LET after(a) ==
            LET o == Caught(a)
                entry == [content |-> content, source |-> source,
                          timestamp |-> now, risk |-> o.risk,
                          reason |-> o.reason, user_id_str |-> sender]
                audit == AuditEnabled(config)
            IN IF o.kind = "raise"
               THEN {[NoRun EXCEPT !.raised = TRUE,
                                   !.parts = <<Part(a, FALSE, FALSE)>>]}
               ELSE IF ~Flagged(o)
                    THEN {[NoRun EXCEPT !.parts = <<Part(a, FALSE, FALSE)>>]}
               ELSE (IF audit
                     THEN {[NoRun EXCEPT
                               !.raised = TRUE, !.store_failed = TRUE,
                               !.parts = <<Part(a, FALSE, FALSE)>>]}
                     ELSE {})
                    \cup {[NoRun EXCEPT
                              !.logged = IF audit THEN <<entry>> ELSE <<>>,
                              !.stopped = o.risk = "Block",
                              !.parts = <<Part(a, audit, o.risk = "Block")>>]}
    IN UNION {after(a) : a \in TextCalls(content)}

\* AIOCensor.output_censor, called by the host with the model's response
\* to an event no handler stopped.
OutputCensor(response) ==
    /\ ev.stage = "on_llm_response"
    /\ LET direct == config.enable_output_censor
                        /\ response.result_chain = <<>>
           runs == IF ~config.enable_output_censor THEN {NoRun}
                   ELSE IF response.result_chain = <<>>
                        THEN OutputText(response.completion_text,
                                        ev.unified_msg_origin, ev.sender_id)
                   ELSE HandleMessage(response.result_chain,
                                      ev.unified_msg_origin, ev.sender_id)
       IN \E run \in runs :
             \E ids \in NewAuditIds(audit_logs, Len(run.logged)) :
                /\ audit_logs' = audit_logs \cup Inserted(run, ids)
                /\ obs' = [op |-> "output_censor"]
                             @@ Handled(run, direct /\ run.raised, <<>>)
    /\ \E resume \in BOOLEAN : ev' = Dispatched(ev, obs', resume)
    /\ UNCHANGED <<config, sched, refreshed, flowVars, blacklist, sensitive_words,
                   new_member_watchlist, now, upd, det, call>>

\* The host asks no model about the message: the event ends.
EndEvent ==
    /\ ev.stage = "on_llm_response"
    /\ ev' = [ev EXCEPT !.stage = "done"]
    /\ obs' = [op |-> "end"]
    /\ UNCHANGED <<config, sched, refreshed, flowVars, storeVars,
                   new_member_watchlist, now, upd, det, call>>

HandlerOps ==
    {"on_all_message", "group_censor", "private_censor", "output_censor"}

EventSenders == {<<"a", "b">>, <<"b">>}
EventChains == {<<Plain(<<"a">>)>>, <<Image(<<"b">>), Plain(<<"b">>)>>}

\* The plugin after initialize() and a refresh that loaded one blacklisted
\* identifier and one sensitive word, under the switches the administrator
\* set.
InitEvent ==
    /\ \E text_provider \in {"Local", "LLM", ""},
          image, blacklisting, audit, input, scoped, output \in BOOLEAN :
          /\ config = [DefaultConfig EXCEPT
                          !.text_censor_provider = text_provider,
                          !.image_censor_provider = "LLM",
                          !.enable_image_censor = image,
                          !.enable_blacklist = blacklisting,
                          !.enable_audit_log = audit,
                          !.enable_all_input_censor = input,
                          !.enable_input_censor = ~input,
                          !.enable_group_msg_censor = scoped,
                          !.enable_private_msg_censor = scoped,
                          !.enable_output_censor = output]
          /\ image_censor = IF image THEN CreateCensor("LLM", FALSE)
                            ELSE NoCensor
          /\ text_censor =
                 IF text_provider = "Local"
                 THEN Build(CreateCensor("Local", FALSE), {<<"a">>})
                 ELSE CreateCensor(text_provider, FALSE)
    /\ userid_censor = Build(LocalCensor(UseridConfig), {<<"a", "b">>})
    /\ blacklist = AddBlacklistEntry({}, 1, <<"a", "b">>, "r1", 1)
    /\ sensitive_words = AddSensitiveWord({}, 1, <<"a">>, 1)
    /\ audit_logs = {}
    /\ now = 1
    /\ refreshed = userid_censor.patterns
    /\ PluginInit

NextEvent ==
    \/ \E kind \in EventKinds, sender \in EventSenders,
          chain \in EventChains, wake \in BOOLEAN :
          Arrive(kind, sender, chain, wake)
    \/ OnAllMessage
    \/ DispatchGroupCensor
    \/ PrivateCensor
    \/ \E response \in Responses : OutputCensor(response)
    \/ EndEvent

SpecEvent == InitEvent /\ [][NextEvent]_vars

\* C14: every message handler returns normally, whatever fails while the
\* message is screened: a detector call, a call of the Store, or a channel
\* with no detector bound.
C14_HandlersReturnNormally ==
    obs.op \in HandlerOps => ~obs.escaped

\* C15: a part whose detector call failed yields no decision: it is not
\* logged, and it neither suppresses the message nor stops the event; a
\* handler all of whose detector calls failed inserts no row, stops
\* nothing and returns normally; the rows a handler inserts are those of
\* the parts it logged.
C15_FailsOpen ==
    obs.op \in HandlerOps =>
        LET failed == {i \in DOMAIN obs.parts :
                          obs.parts[i].answer.kind = "error"}
            logged == {i \in DOMAIN obs.parts : obs.parts[i].logged}
        IN /\ \A i \in failed :
                 ~obs.parts[i].logged /\ ~obs.parts[i].stop
           /\ obs.ident # <<"Block">> =>
                 Cardinality(audit_logs \ obs.before) = Cardinality(logged)
           /\ (failed = DOMAIN obs.parts /\ obs.ident # <<"Block">>) =>
                 /\ audit_logs = obs.before
                 /\ ~obs.stopped
                 /\ ~obs.escaped

\* The image detector failed on the first part of a group message; the
\* text that followed was screened, flagged for review and logged, and the
\* event went on.
C15_Witness ==
    /\ obs.op = "group_censor"
    /\ Len(obs.parts) = 2
    /\ obs.parts[1].answer.kind = "error"
    /\ obs.parts[2].answer.kind = "res"
    /\ obs.parts[2].answer.risk = "Review"
    /\ obs.parts[2].logged
    /\ Cardinality(audit_logs \ obs.before) = 1
    /\ ~obs.stopped /\ ~ev.stopped

\* C18: with blacklist screening on, a message whose sender is in the
\* identifier matcher's set ends its dispatch stopped, with no text or
\* image detector called for it by any handler.
C18_BlacklistedShortCircuits ==
    (ev.stage = "done" /\ config.enable_blacklist
        /\ ev.sender_id \in userid_censor.patterns) =>
            ev.stopped /\ ~ev.invoked

CallBuild(c, patterns) ==
    /\ SupportsBuild(CensorOf(c))
    /\ text_censor' = IF c = "text" THEN Build(text_censor, patterns)
                      ELSE text_censor
    /\ userid_censor' = IF c = "userid" THEN Build(userid_censor, patterns)
                        ELSE userid_censor
    /\ obs' = [op |-> "build", censor |-> c, patterns |-> patterns,
               before |-> CensorOf(c),
               again |-> /\ obs.op = "build"
                         /\ obs.censor = c
                         /\ obs.patterns = patterns]
    /\ UNCHANGED <<config, sched, ev, refreshed, image_censor, storeVars,
                   new_member_watchlist, now, upd, det, call>>

\* The sets the builds are called with: none, one word, a word and one
\* that contains it, two words apart.
BuildSets ==
    {{}, {<<"a">>}, {<<"b">>}, {<<"a">>, <<"a", "b">>}, {<<"a">>, <<"b">>}}

NextBuild ==
    \E c \in {"text", "userid"}, S \in BuildSets : CallBuild(c, S)

SpecBuild == InitPlugin(DefaultConfig) /\ [][NextBuild]_vars

MayStartAlways(running) == TRUE

\* The executor's test before it starts a run of a job: fewer runs of the
\* job in flight than its max_instances.
MayStart(running) == running < 1

\* A sequence without its i-th element.
Without(seq, i) == SubSeq(seq, 1, i - 1) \o SubSeq(seq, i + 1, Len(seq))

\* The interval trigger fires.
JobFires ==
    /\ IF MayStart(Len(sched))
       THEN /\ sched' = Append(sched, "created")
            /\ obs' = [op |-> "job_submitted", in_flight |-> Len(sched)]
       ELSE /\ sched' = sched
            /\ obs' = [op |-> "job_skipped", in_flight |-> Len(sched)]
    /\ UNCHANGED <<config, ev, refreshed, flowVars, storeVars,
                   new_member_watchlist, now, upd, det, call>>

\* The run the executor holds as i-th, after a step of _update_censors:
\* finished when the step ended the run.
JobAfter(i, state) ==
    IF upd'.pc = "idle" THEN Without(sched, i)
    ELSE [sched EXCEPT ![i] = state]

\* A run the executor created takes its first step.
JobGetBlacklist ==
    \E i \in DOMAIN sched :
        /\ sched[i] = "created"
        /\ UpdateGetBlacklistBody
        /\ sched' = JobAfter(i, "running")

JobBuildUserid ==
    \E i \in DOMAIN sched :
        /\ sched[i] = "running"
        /\ UpdateBuildUseridBody
        /\ sched' = JobAfter(i, "running")

JobGetSensitiveWords ==
    \E i \in DOMAIN sched :
        /\ sched[i] = "running"
        /\ UpdateGetSensitiveWordsBody
        /\ sched' = JobAfter(i, "running")

JobBuildText ==
    \E i \in DOMAIN sched :
        /\ sched[i] = "running"
        /\ UpdateBuildTextBody
        /\ sched' = JobAfter(i, "running")

NextSched ==
    \/ JobFires
    \/ JobGetBlacklist
    \/ JobBuildUserid
    \/ JobGetSensitiveWords
    \/ JobBuildText
    \/ \E u \in RefreshUsers : BeginAddBlacklistEntry("webui", u, "r1")
    \/ ExecAddBlacklistEntry("webui")
    \/ \E w \in RefreshWords : BeginAddSensitiveWord("webui", w)
    \/ ExecAddSensitiveWord("webui")

SpecSched == InitPlugin(DefaultConfig) /\ [][NextSched]_vars

\* C24: at no time does the scheduler hold two unfinished runs of the
\* refresh job; a run of _update_censors in flight is the one run it
\* holds; a firing is skipped exactly when it finds a run unfinished.
C24_RefreshNeverOverlaps ==
    /\ Len(sched) <= 1
    /\ upd.pc # "idle" => sched = <<"running">>
    /\ obs.op = "job_skipped" => obs.in_flight = 1
    /\ obs.op = "job_submitted" => obs.in_flight = 0

\* The trigger fired while a run was between reading the sensitive words
\* and building the text matcher, and the firing was skipped.
C24_Witness ==
    /\ obs.op = "job_skipped"
    /\ upd.pc = "build_text"
    /\ sched = <<"running">>

(***************************************************************************)
(* AuditLogMixin on its connection.  add_audit_log and delete_audit_log    *)
(* are coroutines that await the statement and then the commit, or the     *)
(* rollback after an error, on the one connection self.db; other           *)
(* coroutines run at each await.  A connection has one transaction: a      *)
(* commit makes every statement executed on it since the last commit or    *)
(* rollback permanent, a rollback undoes every one of them.  audit_logs is *)
(* the committed table.  call[c] is the call of coroutine c in flight.     *)
(***************************************************************************)
AuditOps == {"add_audit_log", "delete_audit_log"}

\* The coroutines whose statement is executed and neither committed nor
\* rolled back.
Uncommitted(op) ==
    {c \in Callers : call[c].op = op /\ call[c].stmt = "pending"}

\* The table as the connection sees it.
ConnView ==
    LET added == {AuditRow(call[c].log_id, call[c].result) :
                     c \in Uncommitted("add_audit_log")}
        deleted == {call[c].log_id : c \in Uncommitted("delete_audit_log")}
    IN {r \in audit_logs \cup added : r.id \notin deleted}

\* The ids the calls in flight work on.
InFlightIds == {call[c].log_id : c \in {d \in Callers : call[d].op \in AuditOps}}

\* The calls after coroutine c returned and the transaction ended as `how`.
Settled(c, how) ==
    [d \in Callers |->
        IF d = c THEN IdleCall
        ELSE IF call[d].op \in AuditOps /\ call[d].stmt = "pending"
             THEN [call[d] EXCEPT !.stmt = how]
        ELSE call[d]]

\* The result stored by the calls of this specification.
ConnResult ==
    [content |-> <<"a">>, source |-> "g1", timestamp |-> 1, risk |-> "Block",
     reason |-> {<<"a">>}, user_id_str |-> "u1"]

\* Coroutine c calls add_audit_log or delete_audit_log and its statement
\* runs: it takes effect in the transaction, or fails with aiosqlite.Error.
AuditExecute(c, op, log_id) ==
    /\ call[c].op = "idle"
    /\ log_id \notin InFlightIds
    /\ IF op = "add_audit_log"
       THEN log_id \in FreshAuditIds(audit_logs)
       ELSE log_id \in {r.id : r \in audit_logs}
    /\ \E fails \in BOOLEAN :
          call' = [call EXCEPT ![c] =
                      [op |-> op, log_id |-> log_id, result |-> ConnResult,
                       pc |-> IF fails THEN "rollback" ELSE "commit",
                       stmt |-> IF fails THEN "none" ELSE "pending",
                       deleted |-> \E r \in ConnView : r.id = log_id]]
    /\ obs' = NoObs
    /\ UNCHANGED <<config, sched, ev, refreshed, flowVars, storeVars,
                   new_member_watchlist, now, upd, det>>

\* await self.db.commit(), and the return that follows it.
AuditCommit(c) ==
    /\ call[c].op \in AuditOps
    /\ call[c].pc = "commit"
    /\ \E fails \in BOOLEAN :
          IF fails
          THEN /\ call' = [call EXCEPT ![c].pc = "rollback"]
               /\ obs' = NoObs
               /\ UNCHANGED audit_logs
          ELSE /\ audit_logs' = ConnView
               /\ call' = Settled(c, "committed")
               /\ obs' = [op |-> call[c].op, ok |-> TRUE,
                          log_id |-> call[c].log_id,
                          deleted |-> call[c].deleted]
    /\ UNCHANGED <<config, sched, ev, refreshed, flowVars, blacklist,
                   sensitive_words, new_member_watchlist, now, upd, det>>

\* except aiosqlite.Error: await self.db.rollback(); raise DBError.
AuditRollback(c) ==
    /\ call[c].op \in AuditOps
    /\ call[c].pc = "rollback"
    /\ call' = Settled(c, "rolled_back")
    /\ obs' = [op |-> call[c].op, ok |-> FALSE, log_id |-> call[c].log_id,
               deleted |-> FALSE]
    /\ UNCHANGED <<config, sched, ev, refreshed, flowVars, storeVars,
                   new_member_watchlist, now, upd, det>>

NextConn ==
    \/ \E c \in Callers, op \in AuditOps, log_id \in AuditIds :
          AuditExecute(c, op, log_id)
    \/ \E c \in Callers : AuditCommit(c)
    \/ \E c \in Callers : AuditRollback(c)
    \/ \E c \in Callers, u \in RefreshUsers :
          BeginAddBlacklistEntry(c, u, "r1")
    \/ \E c \in Callers : ExecAddBlacklistEntry(c)

SpecConn == InitPlugin(DefaultConfig) /\ [][NextConn]_vars

\* C25: a mutation that ends with a store error has left no effect of its
\* own in the Store (the row of a failed add is absent, the row of a
\* failed delete is present, the blacklist after a failed add is the one
\* before it), and a mutation that returns normally has taken effect (the
\* row of an add is present, the row of a delete that reports it deleted
\* is absent), however the calls on the connection interleave.
C25_FailedMutationRollsBack ==
    /\ (obs.op = "add_audit_log" /\ obs.ok) =>
          \E r \in audit_logs : r.id = obs.log_id
    /\ (obs.op = "add_audit_log" /\ ~obs.ok) =>
          \A r \in audit_logs : r.id # obs.log_id
    /\ (obs.op = "delete_audit_log" /\ obs.ok /\ obs.deleted) =>
          \A r \in audit_logs : r.id # obs.log_id
    /\ (obs.op = "delete_audit_log" /\ ~obs.ok) =>
          \E r \in audit_logs : r.id = obs.log_id
    /\ (obs.op = "add_blacklist_entry" /\ ~obs.ok) => blacklist = obs.table

\* C32: the mutating calls on the connection are serialized: at most one
\* of them has a statement executed and not yet committed or rolled back,
\* and no call in flight had its statement committed or rolled back by the
\* commit or the rollback of another call.
C32_OneTransactionAtATime ==
    /\ Cardinality(Uncommitted("add_audit_log")
                      \cup Uncommitted("delete_audit_log")) <= 1
    /\ \A c \in Callers :
          call[c].op \in AuditOps =>
              call[c].stmt \notin {"committed", "rolled_back"}

(***************************************************************************)
(* The administrative interface: POST /api/blacklist.  Between reading the *)
(* request and answering, the handler awaits nothing, so its search and    *)
(* its add are one step for the other requests.                            *)
(***************************************************************************)
\* str.strip() on a text that may hold spaces.
RECURSIVE StripLeft(_)
StripLeft(text) ==
    IF text # <<>> /\ Head(text) = " " THEN StripLeft(Tail(text)) ELSE text

RECURSIVE StripRight(_)
StripRight(text) ==
    IF text # <<>> /\ text[Len(text)] = " "
    THEN StripRight(SubSeq(text, 1, Len(text) - 1))
    ELSE text

\* clean_input.
CleanInput(text) == StripRight(StripLeft(text))

\* BlacklistMixin.search_blacklist: identifier LIKE %term% OR reason LIKE
\* %term%, the newest first, one page.
SearchBlacklist(tbl, search_term, limit, offset) ==
    GetBlacklistEntries({r \in tbl : \/ IsSubstring(search_term, r.identifier)
                                     \/ IsSubstring(search_term, r.reason)},
                        limit, offset)

\* add_to_blacklist for a request body with userId and reason.
AddToBlacklist(userId, reasonGiven) ==
    LET user_id == CleanInput(userId)
        reason == CleanInput(reasonGiven)
        seen == [op |-> "add_to_blacklist", user_id |-> user_id,
                 reason |-> reason, now_ts |-> now, before |-> blacklist]
    IN /\ IF user_id = <<>> \/ reason = <<>>
          THEN /\ obs' = seen @@ [status |-> 400]
               /\ UNCHANGED <<blacklist, upd>>
          ELSE \E existing \in SearchBlacklist(blacklist, user_id,
                                               DefaultLimit, 0),
                  fails \in BOOLEAN :
                  IF fails
                  THEN /\ obs' = seen @@ [status |-> 500]
                       /\ UNCHANGED <<blacklist, upd>>
                  ELSE IF \E entry \in existing : entry.identifier = user_id
                       THEN /\ obs' = seen @@ [status |-> 409]
                            /\ UNCHANGED <<blacklist, upd>>
                  ELSE /\ blacklist' =
                              AddBlacklistEntry(blacklist, NewId(blacklist),
                                                user_id, reason, now)
                       /\ obs' = seen @@ [status |-> 201]
                       /\ upd' = StoreChanged(upd, {})
       /\ UNCHANGED <<config, sched, ev, refreshed, flowVars, sensitive_words,
                      audit_logs, new_member_watchlist, now, det, call>>

\* What the administrator types.
AdminInputs == {<<>>, <<"a">>, <<" ", "a", " ">>, <<"a", "b">>}

NextAdmin ==
    \/ Tick
    \/ \E userId, reasonGiven \in AdminInputs :
          AddToBlacklist(userId, reasonGiven)
    \/ \E i \in DeletableIds(blacklist) : DeleteBlacklistEntry(i)

SpecAdmin == InitPlugin(DefaultConfig) /\ [][NextAdmin]_vars

\* C27: an add through the administrative interface of an identifier the
\* blacklist holds, the store not failing, leaves one row for the
\* identifier, the row it had, with the reason given and updated_at the
\* time of the add.
C27_AdminAddUpserts ==
    (/\ obs.op = "add_to_blacklist"
     /\ obs.status \notin {400, 500}
     /\ RowWith(obs.before, "identifier", obs.user_id) # {}) =>
        /\ Cardinality(RowWith(blacklist, "identifier", obs.user_id)) = 1
        /\ \A r \in RowWith(blacklist, "identifier", obs.user_id) :
              /\ r.reason = obs.reason
              /\ r.updated_at = obs.now_ts
              /\ \E b \in obs.before : b.id = r.id

(***************************************************************************)
(* handle_message with the platform in view.  A part whose verdict is      *)
(* Block ends the loop: on an aiocqhttp event of a group the handler for   *)
(* that platform decides whether dispose_msg is called, on any other event *)
(* a warning is logged; the event is stopped in both cases.  The host      *)
(* hands out numeric ids on aiocqhttp, so the int() conversions succeed,   *)
(* and admin_check answers whether the bot administers the group.          *)
(***************************************************************************)
Platforms == {"aiocqhttp", "telegram"}

\* A handler that asks nobody whether the bot administers the group.
DisposeWithoutAdmin(platform, risk, admin) ==
    /\ platform = "aiocqhttp"
    /\ risk = "Block"
    /\ config.enable_group_msg_censor \/ config.enable_review_new_members

\* _handle_aiocqhttp_group_message: whether dispose_msg is called.
HandleAiocqhttpGroupMessage(platform, risk, admin) ==
    /\ platform = "aiocqhttp"
    /\ risk = "Block"
    /\ config.enable_group_msg_censor \/ config.enable_review_new_members
    /\ admin

\* What the Block branch of handle_message did about the message itself.
Suppression(run, platform, group_id, admin) ==
    IF ~run.stopped THEN "none"
    ELSE IF platform = "aiocqhttp" /\ group_id # ""
         THEN IF HandleAiocqhttpGroupMessage(platform, "Block", admin)
              THEN "dispose_msg" ELSE "left"
    ELSE "warning"

\* handle_message for an event of the platform.  The rows earlier messages
\* left in the audit log have no part in what it decides: a behaviour logs
\* the parts of one message.
CallHandleMessage(platform, group_id, sender, chain, admin) ==
    /\ audit_logs = {}
    /\ \E run \in HandleMessage(chain, group_id, sender) :
         \E ids \in NewAuditIds(audit_logs, Len(run.logged)) :
            /\ audit_logs' = audit_logs \cup Inserted(run, ids)
            /\ obs' = [op |-> "handle_message", platform |-> platform,
                       group_id |-> group_id, admin |-> admin,
                       chain |-> chain,
                       dispose |-> Suppression(run, platform, group_id,
                                               admin)]
                          @@ Handled(run, FALSE, <<>>)
    /\ UNCHANGED <<config, sched, ev, refreshed, flowVars, blacklist,
                   sensitive_words, new_member_watchlist, now, upd, det,
                   call>>

StopChains ==
    {<<Plain(<<"b">>), Plain(<<"a">>)>>,
     <<Image(<<"b">>), Plain(<<"b">>), Plain(<<"a">>)>>}

\* The plugin after initialize(), one sensitive word loaded, under the
\* switches the administrator set.
InitStop ==
    /\ \E text_provider \in {"Local", "LLM"},
          image, imageFails, audit, baseline, review \in BOOLEAN :
          /\ config = [DefaultConfig EXCEPT
                          !.text_censor_provider = text_provider,
                          !.image_censor_provider = "LLM",
                          !.enable_image_censor = image,
                          !.enable_audit_log = audit,
                          !.enable_group_msg_censor = baseline,
                          !.enable_review_new_members = review]
          /\ image_censor = IF image THEN CreateCensor("LLM", imageFails)
                            ELSE NoCensor
          /\ text_censor =
                 IF text_provider = "Local"
                 THEN Build(CreateCensor("Local", FALSE), {<<"a">>})
                 ELSE CreateCensor(text_provider, FALSE)
    /\ userid_censor = LocalCensor(UseridConfig)
    /\ blacklist = {}
    /\ sensitive_words = AddSensitiveWord({}, 1, <<"a">>, 1)
    /\ audit_logs = {}
    /\ now = 1
    /\ refreshed = userid_censor.patterns
    /\ PluginInit

NextStop ==
    \E platform \in Platforms, group_id \in {"", "g1"},
       chain \in StopChains, admin \in BOOLEAN :
       CallHandleMessage(platform, group_id, <<"b">>, chain, admin)

SpecStop == InitStop /\ [][NextStop]_vars

\* The part of a run whose verdict is the level.
PartsAt(parts, risk) ==
    {i \in DOMAIN parts : /\ parts[i].answer.kind = "res"
                          /\ parts[i].answer.risk = risk}

\* C28 as stated: a run of handle_message that no exception ended stops the
\* event exactly when a part's verdict is Block, and exactly then
\* dispose_msg is called for the message.
C28_BlockStopsAndSuppresses ==
    (obs.op = "handle_message" /\ ~obs.raised) =>
        /\ obs.stopped <=> PartsAt(obs.parts, "Block") # {}
        /\ obs.stopped <=> obs.dispose = "dispose_msg"

\* C28: a run of handle_message that no exception ended stops the event
\* exactly when a part's verdict is Block; no part whose verdict is Review
\* or Pass stops it; dispose_msg is called exactly when the event is
\* stopped, the event is an aiocqhttp event of a group, one of the two
\* group switches is on and the bot administers the group.
C28_BlockStops ==
    (obs.op = "handle_message" /\ ~obs.raised) =>
        /\ obs.stopped <=> PartsAt(obs.parts, "Block") # {}
        /\ \A i \in PartsAt(obs.parts, "Review") \cup
                    PartsAt(obs.parts, "Pass") : ~obs.parts[i].stop
        /\ obs.dispose = "dispose_msg" <=>
              /\ obs.stopped
              /\ obs.platform = "aiocqhttp"
              /\ obs.group_id # ""
              /\ config.enable_group_msg_censor
                    \/ config.enable_review_new_members
              /\ obs.admin

\* A message of three parts, the first under Review, the second Block:
\* stopped there, the third never screened, dispose_msg called.
C28_Witness ==
    /\ obs.op = "handle_message"
    /\ ~obs.raised
    /\ Len(obs.parts) = 2
    /\ PartsAt(obs.parts, "Review") = {1}
    /\ PartsAt(obs.parts, "Block") = {2}
    /\ obs.stopped
    /\ obs.dispose = "dispose_msg"

(***************************************************************************)
(* The flow constructed anew: the host reloads the plugin and              *)
(* AIOCensor.__init__ calls CensorFlow(config) again, under the            *)
(* configuration it has.                                                   *)
(***************************************************************************)
KnownProviders == {"Aliyun", "LLM", "Tencent", "Local"}

Construct(textFails, imageFails) ==
    /\ LET flow == NewFlow(config, textFails, imageFails)
       IN /\ text_censor' = flow[1]
          /\ image_censor' = flow[2]
          /\ userid_censor' = flow[3]
    /\ obs' = [op |-> "__init__", text_fails |-> textFails,
               image_fails |-> imageFails]
    /\ UNCHANGED <<config, sched, ev, refreshed, storeVars,
                   new_member_watchlist, now, upd, det, call>>

NextCtor ==
    \/ \E textFails, imageFails \in BOOLEAN : Construct(textFails, imageFails)
    \/ \E x \in FlowTexts : CallSubmitText(x, "g1")
    \/ \E x \in FlowTexts : CallSubmitImage(x, "g1")

SpecCtor == InitFlow /\ [][NextCtor]_vars

\* C30: CensorFlow(config) yields its three bindings whatever the provider
\* names are and whichever constructor raises: the text channel is bound
\* exactly when its provider is a known name and the constructor did not
\* raise; the image channel exactly when image screening is enabled, its
\* provider is a known name and the constructor did not raise; the
\* identifier channel always, to the whole-string matcher.
C30_ConstructionNeverFails ==
    obs.op = "__init__" =>
        /\ text_censor.kind # None <=>
              /\ config.text_censor_provider \in KnownProviders
              /\ ~obs.text_fails
        /\ image_censor.kind # None <=>
              /\ config.enable_image_censor
              /\ config.image_censor_provider \in KnownProviders
              /\ ~obs.image_fails
        /\ ExactMode(userid_censor)

\* An unknown text provider and an image constructor that raised: both
\* channels unbound, the identifier matcher bound.
C30_Witness ==
    /\ obs.op = "__init__"
    /\ config.text_censor_provider = "Unknown"
    /\ config.enable_image_censor
    /\ config.image_censor_provider = "LLM"
    /\ obs.image_fails
    /\ text_censor.kind = None
    /\ image_censor.kind = None
    /\ userid_censor.kind = "LocalCensor"

(***************************************************************************)
(* The staleness window: the administrator adds and deletes words and      *)
(* identifiers in the store while the refresh runs now and then.  The      *)
(* administrative interface is a process of its own and main.py starts it  *)
(* with no notification queue, so the matchers change in _update_censors   *)
(* only.                                                                   *)
(***************************************************************************)
NextStale ==
    \/ UpdateGetBlacklist
    \/ UpdateBuildUserid
    \/ UpdateGetSensitiveWords
    \/ UpdateBuildText
    \/ \E u \in RefreshUsers : BeginAddBlacklistEntry("webui", u, "r1")
    \/ ExecAddBlacklistEntry("webui")
    \/ \E w \in RefreshWords : BeginAddSensitiveWord("webui", w)
    \/ ExecAddSensitiveWord("webui")
    \/ \E i \in DeletableIds(blacklist) : DeleteBlacklistEntry(i)
    \/ \E i \in DeletableIds(sensitive_words) : DeleteSensitiveWord(i)

SpecStale == InitRefresh /\ [][NextStale]_vars

\* The pattern sets of the two matchers the refresh loads.
Loaded == <<text_censor.patterns, userid_censor.patterns>>

\* C31: a step that changes the blacklist or the sensitive words leaves the
\* pattern sets of the matchers as they are; the pattern sets change only
\* in a build of _update_censors; and when a run of _update_censors that no
\* store change overlapped ends without error, every identifier loaded is
\* in the blacklist and, where the text matcher has build, every word
\* loaded is in the store: what was removed matches no more.
C31_StoreMutationsLeaveMatchers ==
    [][/\ (blacklist' # blacklist \/ sensitive_words' # sensitive_words) =>
              Loaded' = Loaded
       /\ Loaded' # Loaded => upd.pc \in {"build_userid", "build_text"}
       /\ (obs'.op = "_update_censors" /\ obs'.ok /\ ~obs'.stale) =>
              /\ \A u \in userid_censor'.patterns :
                    RowWith(blacklist', "identifier", u) # {}
              /\ SupportsBuild(text_censor') =>
                    \A w \in text_censor'.patterns :
                       RowWith(sensitive_words', "word", w) # {}]_vars

\* A word the text matcher holds was deleted from the store with no refresh
\* in flight: the matcher still holds it, and the identifier matcher still
\* holds an identifier deleted before.
C31_Witness ==
    /\ obs.op = "delete_sensitive_word" /\ obs.ok
    /\ upd.pc = "idle"
    /\ \E b \in obs.before : b.word \in text_censor.patterns
    /\ \E u \in userid_censor.patterns : RowWith(blacklist, "identifier", u) = {}

(***************************************************************************)
(* The audit log among everything else the plugin does: group messages are *)
(* screened and logged, the watchlist is armed and swept, the refresh      *)
(* runs, the administrator changes the blacklist and the sensitive words   *)
(* and ignores log entries.                                                *)
(***************************************************************************)
InitKeep ==
    /\ InitWatch
    /\ config.enable_audit_log
    /\ config.enable_group_msg_censor
    /\ config.enable_review_new_members
    /\ config.group_list = {"g1"}

\* The message the member sends: the word loaded at the start, then
\* another.
KeepChain == <<Plain(<<"a">>), Plain(<<"b">>)>>

\* No refresh and no call of the administrator in flight.  A step is
\* checked on its own, so the steps of the administrator and of the group
\* come between the runs of the refresh, not inside them.
Quiet == upd.pc = "idle" /\ call["webui"].op = "idle"

NextKeep ==
    \/ UpdateGetBlacklist
    \/ UpdateBuildUserid
    \/ UpdateGetSensitiveWords
    \/ UpdateBuildText
    \/ Quiet /\ CleanupWatchlist
    \/ Quiet /\ HandleGroupIncreaseForReview("g1", <<"b">>)
    \/ Quiet /\ GroupCensor("g1", <<"b">>, KeepChain)
    \/ Quiet /\ \E i \in AuditIds : DeleteAuditLog(i)
    \/ Quiet /\ \E u \in RefreshUsers :
                   BeginAddBlacklistEntry("webui", u, "r1")
    \/ ExecAddBlacklistEntry("webui")
    \/ Quiet /\ BeginAddSensitiveWord("webui", <<"b">>)
    \/ ExecAddSensitiveWord("webui")
    \/ Quiet /\ \E i \in DeletableIds(blacklist) : DeleteBlacklistEntry(i)
    \/ Quiet /\ \E i \in DeletableIds(sensitive_words) :
                   DeleteSensitiveWord(i)

SpecKeep == InitKeep /\ [][NextKeep]_vars

\* C33: in every step each row of the audit log stays as it is or goes;
\* no row takes the id of another; rows go only in a delete_audit_log that
\* ended without error, and then one row at most.
C33_AuditRowsImmutable ==
    [][/\ \A r \in audit_logs : \A q \in audit_logs' : q.id = r.id => q = r
       /\ audit_logs \ audit_logs' # {} =>
             /\ obs'.op = "delete_audit_log" /\ obs'.ok /\ obs'.result
             /\ Cardinality(audit_logs \ audit_logs') = 1]_vars

\* One of two rows of the log was deleted after the refresh had loaded a
\* word added to the store and a later message had been logged for it.
C33_Witness ==
    /\ obs.op = "delete_audit_log" /\ obs.ok /\ obs.result
    /\ Cardinality(audit_logs) = 1
    /\ <<"b">> \in text_censor.patterns
    /\ blacklist # {}

\* The parts of a chain that handle_message submits.
RECURSIVE Screenable(_)
Screenable(chain) ==
    IF chain = <<>> THEN 0
    ELSE Screenable(Tail(chain))
            + (IF \/ Head(chain).type = "Plain"
                  \/ Head(chain).type = "Image" /\ config.enable_image_censor
               THEN 1 ELSE 0)

\* C35: a run of handle_message in which the screening of a part failed,
\* the detector raising or no detector being bound for it, still submits
\* the parts after it, up to the end of the message or to a part whose
\* verdict is Block and stops the event.
C35_FailedPartDoesNotEndScreening ==
    (/\ obs.op = "handle_message"
     /\ ~obs.store_failed
     /\ \E i \in DOMAIN obs.parts :
           obs.parts[i].answer.kind \in {"error", "raise"}) =>
        \/ obs.stopped
        \/ Len(obs.parts) = Screenable(obs.chain)

(***************************************************************************)
(* The administrative interface: POST /api/sensitive-words.  The handler   *)
(* awaits nothing between its look-up and its add.                         *)
(***************************************************************************)
\* add_sensitive_word of the interface for a request body with word.
WebAddSensitiveWord(wordGiven) ==
    LET word == CleanInput(wordGiven)
        seen == [op |-> "web_add_sensitive_word", word |-> word,
                 now_ts |-> now, before |-> sensitive_words]
    IN /\ IF word = <<>>
          THEN /\ obs' = seen @@ [status |-> 400]
               /\ UNCHANGED <<sensitive_words, upd>>
          ELSE \E fails \in BOOLEAN :
                  LET existing == GetSensitiveWords(sensitive_words, <<word>>,
                                                    1, 0)
                  IN IF fails
                     THEN /\ obs' = seen @@ [status |-> 500]
                          /\ UNCHANGED <<sensitive_words, upd>>
                     ELSE IF \E entry \in existing : entry.word = word
                          THEN /\ obs' = seen @@ [status |-> 409]
                               /\ UNCHANGED <<sensitive_words, upd>>
                     ELSE /\ sensitive_words' =
                                 AddSensitiveWord(sensitive_words,
                                                  NewId(sensitive_words),
                                                  word, now)
                          /\ obs' = seen @@ [status |-> 201]
                          /\ upd' = StoreChanged(upd, {word})
       /\ UNCHANGED <<config, sched, ev, refreshed, flowVars, blacklist,
                      audit_logs, new_member_watchlist, now, det, call>>

\* What the administrator types for a word.
WordInputs == {<<>>, <<"b">>, <<" ", "b">>, <<"a", "b">>, <<"b", "b">>}

NextAdminWords ==
    \/ Tick
    \/ \E wordGiven \in WordInputs : WebAddSensitiveWord(wordGiven)
    \/ \E i \in DeletableIds(sensitive_words) : DeleteSensitiveWord(i)

SpecAdminWords == InitPlugin(DefaultConfig) /\ [][NextAdminWords]_vars

\* C36: an add of a word through the administrative interface, the store
\* not failing, answers 409 and leaves the table as it was when the word
\* is stored, and answers 201 only when it was not.
C36_PresentWordConflicts ==
    (obs.op = "web_add_sensitive_word" /\ obs.status \notin {400, 500}) =>
        IF RowWith(obs.before, "word", obs.word) # {}
        THEN obs.status = 409 /\ sensitive_words = obs.before
        ELSE obs.status = 201

(***************************************************************************)
(* The administrative interface: POST /api/audit-logs/<id>/dispose.  The   *)
(* handler goes through the actions of the request in their order and      *)
(* answers at the first one it cannot carry out; it awaits nothing in      *)
(* between.                                                                *)
(***************************************************************************)
\* f"根据审核日志 {log_id} 添加": a text that tells the ids apart.
DisposeReason(log_id) == [i \in 1..log_id |-> "l"]

\* The loop of dispose_log over the actions left, the blacklist being tbl:
\* the answers it may end with and the blacklist it leaves.
RECURSIVE Dispose(_, _, _)
Dispose(tbl, log_id, actions) ==
    IF actions = <<>> THEN {[status |-> 200, table |-> tbl]}
    ELSE LET action == Head(actions)
             failed == [status |-> 500, table |-> tbl]
             log == RowWith(audit_logs, "id", log_id)
         IN IF action = "block"
            THEN {failed} \cup
                 (IF log = {} THEN {[status |-> 404, table |-> tbl]}
                  ELSE LET user_id == (CHOOSE r \in log : TRUE).user_id_str
                       IN IF user_id = <<>>
                          THEN {[status |-> 400, table |-> tbl]}
                          ELSE UNION {
                                 IF \E entry \in existing :
                                       entry.identifier = user_id
                                 THEN Dispose(tbl, log_id, Tail(actions))
                                 ELSE Dispose(
                                        AddBlacklistEntry(tbl, NewId(tbl),
                                            user_id, DisposeReason(log_id),
                                            now),
                                        log_id, Tail(actions)) :
                                 existing \in SearchBlacklist(tbl, user_id,
                                                  DefaultLimit, 0)})
            ELSE {[status |-> 400, table |-> tbl]}

\* dispose_log for a request body with actions.
DisposeLog(log_id, actions) ==
    /\ \E out \in Dispose(blacklist, log_id, actions) :
          /\ blacklist' = out.table
          /\ obs' = [op |-> "dispose_log", log_id |-> log_id,
                     actions |-> actions, status |-> out.status,
                     before |-> blacklist]
          /\ upd' = IF out.table # blacklist THEN StoreChanged(upd, {})
                    ELSE upd
    /\ UNCHANGED <<config, sched, ev, refreshed, flowVars, sensitive_words,
                   audit_logs, new_member_watchlist, now, det, call>>

\* The results in the log: one of a sender, one that carries no sender.
DisposeResults ==
    [content : {<<"a">>}, source : {"g1"}, timestamp : {1},
     risk : {"Block"}, reason : {{<<"a">>}},
     user_id_str : {<<>>, <<"a">>}]

\* The actions of a request.
ActionLists ==
    {<<"block">>, <<"block", "dispose">>, <<"dispose", "block">>,
     <<"block", "warn">>, <<"block", "block">>}

NextDispose ==
    \/ \E res \in DisposeResults : CallAddAuditLog(res)
    \/ \E log_id \in AuditIds, actions \in ActionLists :
          DisposeLog(log_id, actions)
    \/ \E i \in DeletableIds(blacklist) : DeleteBlacklistEntry(i)

SpecDispose == InitPlugin(DefaultConfig) /\ [][NextDispose]_vars

\* C37: a dispose request answered with 400 or 404 leaves the blacklist as
\* it was before the request.
C37_FailedDisposeLeavesBlacklist ==
    (obs.op = "dispose_log" /\ obs.status \in {400, 404}) =>
        blacklist = obs.before

(***************************************************************************)
(* SpecQuery: the audit log listed and counted under filters.              *)
(***************************************************************************)
\* The pages a client gets that lists the log under one set of filters with
\* one limit, from the offset on until a page comes back short.
RECURSIVE AllPages(_, _, _, _, _, _, _)
AllPages(tbl, start_time, end_time, source, risk_level, limit, offset) ==
    LET rows == GetAuditLogs(tbl, start_time, end_time, source, risk_level,
                             limit, offset)
    IN IF Len(rows) < limit THEN rows
       ELSE rows \o AllPages(tbl, start_time, end_time, source, risk_level,
                             limit, offset + limit)

\* The client lists the log under the filters to the end and asks for the
\* count under the same filters.
QueryAuditLogs(start_time, end_time, source, risk_level, limit) ==
    /\ obs' = [op |-> "query_audit_logs", start_time |-> start_time,
               end_time |-> end_time, source |-> source,
               risk_level |-> risk_level, limit |-> limit,
               rows |-> AllPages(audit_logs, start_time, end_time, source,
                                 risk_level, limit, 0),
               count |-> GetAuditLogsCount(audit_logs, start_time,
                             end_time, source, risk_level)]
    /\ UNCHANGED <<config, sched, ev, refreshed, flowVars, storeVars,
                   new_member_watchlist, now, upd, det, call>>

\* The results in the log: of either source, early or late, passed or
\* blocked; any two of the three tell nothing about the third.
QueryResults ==
    {res \in [content : {<<"a">>}, source : Sources,
              timestamp : {1, MaxTime}, risk : {"Pass", "Block"},
              reason : {{<<"a">>}}, user_id_str : {"u1"}] :
        (res.risk = "Pass") <=> ((res.source = "g1") <=> (res.timestamp = 1))}

\* The filters of a query: none, a time of 0, a time some entries have.
StartTimes == {<<>>, <<0>>, <<MaxTime>>}
EndTimes == {<<>>, <<0>>, <<1>>}
SourceFilters == {<<>>, <<"g1">>}
RiskFilters == {<<>>, <<"Pass">>}

NextQuery ==
    \/ \E res \in QueryResults : CallAddAuditLog(res)
    \/ \E i \in AuditIds : DeleteAuditLog(i)
    \/ \E start_time \in StartTimes, end_time \in EndTimes,
          source \in SourceFilters, risk_level \in RiskFilters :
          QueryAuditLogs(start_time, end_time, source, risk_level, 2)

SpecQuery == InitPlugin(DefaultConfig) /\ [][NextQuery]_vars

\* C38: every entry a filtered listing returns satisfies each filter that
\* was given (a time of 0 and the level Pass included), and once the pages
\* are through, their entries are as many as the count under the same
\* filters.
C38_ListingHonoursFilters ==
    obs.op = "query_audit_logs" =>
        /\ \A i \in 1..Len(obs.rows) :
              /\ obs.start_time # <<>> =>
                    obs.rows[i].message_timestamp >= obs.start_time[1]
              /\ obs.end_time # <<>> =>
                    obs.rows[i].message_timestamp <= obs.end_time[1]
              /\ obs.source # <<>> => obs.rows[i].source = obs.source[1]
              /\ obs.risk_level # <<>> =>
                    obs.rows[i].risk_level = obs.risk_level[1]
        /\ Len(obs.rows) = obs.count

(***************************************************************************)
(* SpecPages: the blacklist listed page by page.                           *)
(***************************************************************************)
\* A client that lists the blacklist page by page with one limit: offset 0,
\* then the offset raised by the limit after each full page.  obs.pages is
\* what the pages since offset 0 returned, each page the set of its rows.
ListBlacklist(limit, offset) ==
    /\ \/ offset = 0
       \/ /\ obs.op = "get_blacklist_entries"
          /\ obs.limit = limit
          /\ obs.offset + limit = offset
          /\ Cardinality(obs.rows) = limit
    /\ \E rows \in GetBlacklistEntries(blacklist, limit, offset) :
          obs' = [op |-> "get_blacklist_entries", limit |-> limit,
                  offset |-> offset, rows |-> rows,
                  pages |-> IF offset = 0 THEN <<rows>>
                            ELSE Append(obs.pages, rows)]
    /\ UNCHANGED <<config, sched, ev, refreshed, flowVars, storeVars,
                   new_member_watchlist, now, upd, det, call>>

\* The identifiers the administrator blacklists.
PageUsers == {<<"a">>, <<"b">>, <<"a", "b">>}

NextPages ==
    \/ Tick
    \/ \E userId \in PageUsers : AddToBlacklist(userId, <<"a">>)
    \/ \E i \in DeletableIds(blacklist) : DeleteBlacklistEntry(i)
    \/ \E limit \in 1..2, offset \in 0..3 : ListBlacklist(limit, offset)

SpecPages == InitPlugin(DefaultConfig) /\ [][NextPages]_vars

TerminateBegin ==
    /\ ev.stage = "idle"
    /\ ev' = [stage |-> "closing", db_closed |-> TRUE, left |-> ToClose,
              closed |-> {}]
    /\ obs' = [op |-> "terminate", at |-> "db_mgr.close"]
    /\ UNCHANGED <<config, sched, refreshed, flowVars, storeVars,
                   new_member_watchlist, now, upd, det, call>>

\* The close of a detector returns, or raises and ends censor_flow.close().
\* After the last one terminate() goes on, without awaiting anything, to
\* self.scheduler.shutdown() and the end of the administrative interface's
\* process; what the scheduler's runs do from then on is not followed.
TerminateClose ==
    /\ ev.stage = "closing"
    /\ ev.left # <<>>
    /\ \E raises \in BOOLEAN :
          LET left == IF raises THEN <<>> ELSE Tail(ev.left)
          IN ev' = [stage |-> IF left = <<>> THEN "terminated"
                              ELSE "closing",
                    db_closed |-> TRUE, left |-> left,
                    closed |-> ev.closed \cup {Head(ev.left)}]
    /\ obs' = [op |-> "terminate", at |-> Head(ev.left)]
    /\ UNCHANGED <<config, sched, refreshed, flowVars, storeVars,
                   new_member_watchlist, now, upd, det, call>>

\* A read of a store that was closed raises.
ReadOfClosedRaises == ev.stage = "closing" => upd'.pc = "idle"

Running == ev.stage # "terminated"

NextShutdown ==
    \/ Running /\ JobFires
    \/ Running /\ JobGetBlacklist /\ ReadOfClosedRaises
    \/ Running /\ JobBuildUserid
    \/ Running /\ JobGetSensitiveWords /\ ReadOfClosedRaises
    \/ Running /\ JobBuildText
    \/ Running /\ ev.stage = "idle"
          /\ \E u \in RefreshUsers : BeginAddBlacklistEntry("webui", u, "r1")
    \/ Running /\ ev.stage = "idle" /\ ExecAddBlacklistEntry("webui")
    \/ TerminateBegin
    \/ TerminateClose

SpecShutdown == InitPlugin(DefaultConfig) /\ [][NextShutdown]_vars

\* A step of a run of _update_censors that calls the store.
StoreReadStep ==
    /\ ev' = ev
    /\ upd.pc \in {"idle", "get_sensitive_words"}
    /\ upd'.pc # upd.pc \/ obs'.op = "_update_censors"

\* A step of a run of _update_censors that calls the build awaited at pc:
\* the run calls it in the step that read the store.
BuildStep(pc) ==
    /\ ev' = ev
    /\ upd.pc # pc
    /\ upd'.pc = pc

\* C40: once terminate() has closed the store no run of the refresh reads
\* it, and no run calls build on a detector that terminate() has closed.
C40_NoJobOnReleasedResources ==
    [][ev.stage = "closing" =>
          /\ ~StoreReadStep
          /\ BuildStep("build_userid") => "userid" \notin ev.closed
          /\ BuildStep("build_text") => "text" \notin ev.closed]_vars

====
